---- MODULE Spec2Model ----
(***************************************************************************)
(* FreeTradingJournal: the TLG log parser (parsers/tlg_parser.rs), the     *)
(* execution aggregator (services/import_service.rs), manual trade         *)
(* creation (services/trade_service.rs), the derived fields of a trade     *)
(* (calculations/pnl.rs) and the portfolio aggregations                    *)
(* (calculations/aggregations.rs).                                         *)
(*                                                                         *)
(* Text is a sequence of characters, each a one-character string; a        *)
(* character outside ASCII occupies more than one byte, and Rust's str     *)
(* slicing by byte index panics when an index is not a character boundary. *)
(* f64 values are exact rationals <<n, d>> in lowest terms with d > 0      *)
(* (rounding is not modelled).  An Option is the record None or Some(v).   *)
(***************************************************************************)
EXTENDS Integers, Sequences, FiniteSets, TLC

VARIABLES
    content,      \* parse_tlg_file / parse_and_aggregate: the input text, a sequence of lines
    parsed,       \* the value returned by parse_tlg_file, NotRun before the call
    run1,         \* the value returned by a first parse_and_aggregate(content)
    run2,         \* the value returned by a second parse_and_aggregate(content)
    input,        \* the argument of create_trade (a CreateTradeInput), of
                  \* calculate_derived_fields (a Trade), of the aggregations (a
                  \* list of trades with their derived fields) or of
                  \* parse_option_symbol (a packed symbol)
    db,           \* create_trade, execute_import: the rows written to the database
    outcome       \* the value returned by that call, NotRun before the call

vars == <<content, parsed, run1, run2, input, db, outcome>>

\* Option<T>
None == [some |-> FALSE]
Some(v) == [some |-> TRUE, v |-> v]

\* Result<T, String>, with the third outcome of a Rust call: a panic
Ok(v) == [tag |-> "ok", v |-> v]
Err == [tag |-> "err"]
Panicked == [tag |-> "panic"]
NotRun == [tag |-> "notrun"]

----------------------------------------------------------------------------
(* f64 as exact rationals *)

RECURSIVE GCD(_, _)
GCD(a, b) == IF b = 0 THEN a ELSE GCD(b, a % b)

IAbs(x) == IF x < 0 THEN -x ELSE x

Rat(n, d) ==
    LET s == IF d < 0 THEN -1 ELSE 1
        g == GCD(IAbs(n), IAbs(d))
    IN  <<(s * n) \div g, (s * d) \div g>>

R(n) == <<n, 1>>
RNeg(a) == <<-a[1], a[2]>>

\* the operations cancel common factors before they multiply
RAdd(a, b) ==
    LET g == GCD(a[2], b[2])
    IN  Rat(a[1] * (b[2] \div g) + b[1] * (a[2] \div g), (a[2] \div g) * b[2])

RSub(a, b) == RAdd(a, RNeg(b))

RMul(a, b) ==
    LET g1 == GCD(IAbs(a[1]), b[2])
        g2 == GCD(IAbs(b[1]), a[2])
    IN  IF a[1] = 0 \/ b[1] = 0 THEN <<0, 1>>
        ELSE <<(a[1] \div g1) * (b[1] \div g2), (a[2] \div g2) * (b[2] \div g1)>>

\* a / b for b # 0
RDiv(a, b) == RMul(a, IF b[1] < 0 THEN <<-b[2], -b[1]>> ELSE <<b[2], b[1]>>)

RLt(a, b) ==
    LET g == GCD(a[2], b[2]) IN a[1] * (b[2] \div g) < b[1] * (a[2] \div g)

RLe(a, b) ==
    LET g == GCD(a[2], b[2]) IN a[1] * (b[2] \div g) <= b[1] * (a[2] \div g)

RGt(a, b) == RLt(b, a)
RGe(a, b) == RLe(b, a)
RAbs(a) == <<IAbs(a[1]), a[2]>>

RECURSIVE RSum(_)
RSum(s) == IF s = <<>> THEN R(0) ELSE RAdd(s[1], RSum(Tail(s)))

----------------------------------------------------------------------------
(* str: bytes, character boundaries, slicing, trimming *)

Digits == <<"0", "1", "2", "3", "4", "5", "6", "7", "8", "9">>
IsDigit(c) == \E i \in 1..10 : Digits[i] = c
DigitVal(c) == (CHOOSE i \in 1..10 : Digits[i] = c) - 1

\* the UTF-8 length of a character: EAcute (U+00E9) is the two-byte character
\* of the model
EAcute == "U+00E9"
Utf8Len(c) == IF c = EAcute THEN 2 ELSE 1

RECURSIVE ByteLen(_)
ByteLen(s) == IF s = <<>> THEN 0 ELSE Utf8Len(s[1]) + ByteLen(Tail(s))

\* the index of the character of s that starts at byte b, Len(s) + 1 for
\* b = s.len(), and 0 when byte b is no character boundary; k and off walk s
RECURSIVE CharAt(_, _, _, _)
CharAt(s, b, k, off) ==
    IF off = b THEN k
    ELSE IF off > b \/ k > Len(s) THEN 0
    ELSE CharAt(s, b, k + 1, off + Utf8Len(s[k]))

IsCharBoundary(s, b) == CharAt(s, b, 1, 0) # 0

\* &s[a..b] on byte indices a <= b <= s.len(): a panic off a character boundary
ByteSlice(s, a, b) ==
    IF ~(IsCharBoundary(s, a) /\ IsCharBoundary(s, b))
    THEN Panicked
    ELSE Ok(SubSeq(s, CharAt(s, a, 1, 0), CharAt(s, b, 1, 0) - 1))

\* s.chars().nth(n), n counted in characters from 0
CharsNth(s, n) == IF n + 1 <= Len(s) THEN Some(s[n + 1]) ELSE None

RECURSIVE TrimStart(_)
TrimStart(s) == IF s # <<>> /\ s[1] = " " THEN TrimStart(Tail(s)) ELSE s

RECURSIVE TrimEnd(_)
TrimEnd(s) ==
    IF s # <<>> /\ s[Len(s)] = " " THEN TrimEnd(SubSeq(s, 1, Len(s) - 1)) ELSE s

Trim(s) == TrimEnd(TrimStart(s))

RECURSIVE DigitsValue(_)
DigitsValue(s) ==
    IF s = <<>> THEN 0 ELSE 10 * DigitsValue(SubSeq(s, 1, Len(s) - 1)) + DigitVal(s[Len(s)])

AllDigits(s) == \A i \in 1..Len(s) : IsDigit(s[i])

\* str::parse::<i32>: an optional sign, then one or more ASCII digits
ParseI32(s) ==
    LET body == IF s # <<>> /\ s[1] \in {"+", "-"} THEN Tail(s) ELSE s
    IN  IF body = <<>> \/ ~AllDigits(body) THEN Err
        ELSE IF s[1] = "-" THEN Ok(-DigitsValue(body)) ELSE Ok(DigitsValue(body))

\* str::parse::<u32>: an optional "+", then one or more ASCII digits
ParseU32(s) ==
    LET body == IF s # <<>> /\ s[1] = "+" THEN Tail(s) ELSE s
    IN  IF body = <<>> \/ ~AllDigits(body) THEN Err ELSE Ok(DigitsValue(body))

\* str::parse::<f64> on the decimal texts of the model: an optional sign, digits
\* with at most one "."; any other character makes it an error
ParseF64(s) ==
    LET body == IF s # <<>> /\ s[1] \in {"+", "-"} THEN Tail(s) ELSE s
        dots == {i \in 1..Len(body) : body[i] = "."}
        neg == s # <<>> /\ s[1] = "-"
        val(x) == IF neg THEN RNeg(x) ELSE x
    IN  IF body = <<>> \/ Cardinality(dots) > 1 THEN Err
        ELSE IF dots = {}
        THEN IF AllDigits(body) THEN Ok(val(R(DigitsValue(body)))) ELSE Err
        ELSE LET p == CHOOSE i \in dots : TRUE
                 ip == SubSeq(body, 1, p - 1)
                 fp == SubSeq(body, p + 1, Len(body))
                 RECURSIVE Pow10(_)
                 Pow10(k) == IF k = 0 THEN 1 ELSE 10 * Pow10(k - 1)
             IN  IF (ip = <<>> /\ fp = <<>>) \/ ~AllDigits(ip) \/ ~AllDigits(fp) THEN Err
                 ELSE Ok(val(Rat(DigitsValue(ip) * Pow10(Len(fp)) + DigitsValue(fp),
                                 Pow10(Len(fp)))))

----------------------------------------------------------------------------
(* chrono::NaiveDate *)

IsLeap(y) == (y % 4 = 0 /\ y % 100 # 0) \/ y % 400 = 0

DaysInMonth(y, m) ==
    IF m \in {4, 6, 9, 11} THEN 30
    ELSE IF m = 2 THEN (IF IsLeap(y) THEN 29 ELSE 28)
    ELSE 31

\* NaiveDate::from_ymd_opt: Some(<<y, m, d>>) or None
FromYmdOpt(y, m, d) ==
    IF m \in 1..12 /\ d >= 1 /\ d <= DaysInMonth(y, m) THEN Some(<<y, m, d>>) ELSE None

\* NaiveDate's Ord
DateLt(a, b) ==
    \/ a[1] < b[1]
    \/ a[1] = b[1] /\ a[2] < b[2]
    \/ a[1] = b[1] /\ a[2] = b[2] /\ a[3] < b[3]

----------------------------------------------------------------------------
(* parsers/tlg_parser.rs *)

\* String::to_uppercase on the action texts of the model
ToUppercase(s) ==
    CASE s = "buytoopen" -> "BUYTOOPEN"
      [] s = "selltoclose" -> "SELLTOCLOSE"
      [] s = "selltoopen" -> "SELLTOOPEN"
      [] s = "buytoclose" -> "BUYTOCLOSE"
      [] OTHER -> s

\* TlgAction::from_str
ActionFromStr(s) ==
    LET u == ToUppercase(s)
    IN  IF u \in {"BUYTOOPEN", "SELLTOCLOSE", "SELLTOOPEN", "BUYTOCLOSE"}
        THEN Some(u) ELSE None

is_opening(action) == action \in {"BUYTOOPEN", "SELLTOOPEN"}
is_closing(action) == action \in {"SELLTOCLOSE", "BUYTOCLOSE"}

OptionToResult(o) == IF o.some THEN Ok(o.v) ELSE Err

DateLen == 8

\* parse_date after the length test: ys, ms, ds are &s[0..4], &s[4..6], &s[6..8];
\* each slice is taken, and each parse error returned, in source order
DateFromSlices(ys, ms, ds) ==
    IF ys.tag = "panic" THEN Panicked
    ELSE IF ParseI32(ys.v).tag # "ok" THEN Err
    ELSE IF ms.tag = "panic" THEN Panicked
    ELSE IF ParseU32(ms.v).tag # "ok" THEN Err
    ELSE IF ParseU32(ds.v).tag # "ok" THEN Err
    ELSE OptionToResult(FromYmdOpt(ParseI32(ys.v).v, ParseU32(ms.v).v, ParseU32(ds.v).v))

parse_date(s) ==
    IF ByteLen(s) # DateLen THEN Err
    ELSE DateFromSlices(ByteSlice(s, 0, 4), ByteSlice(s, 4, 6), ByteSlice(s, 6, 8))

IsDateAndType(potential_date, potential_type) ==
    /\ AllDigits(potential_date)
    /\ potential_type.some
    /\ potential_type.v \in {"C", "P"}

\* the for loop of parse_option_symbol from index i: the first index whose
\* six-byte slice is all ASCII digits and whose chars().nth(i + 6) is C or P;
\* Ok(0) when the loop ends without a break
RECURSIVE FindDateStart(_, _)
FindDateStart(contract, i) ==
    IF i + 7 > ByteLen(contract) THEN Ok(0)
    ELSE IF ByteSlice(contract, i, i + 6).tag = "panic" THEN Panicked
    ELSE IF IsDateAndType(ByteSlice(contract, i, i + 6).v, CharsNth(contract, i + 6))
    THEN Ok(i)
    ELSE FindDateStart(contract, i + 1)

MinContractLen == 15
StrikeScale == 1000
Century == 2000

\* the expiration date of the six digits YYMMDD, or None
ExpirationDate(date_str) ==
    FromYmdOpt(Century + ParseI32(SubSeq(date_str, 1, 2)).v,
               ParseU32(SubSeq(date_str, 3, 4)).v,
               ParseU32(SubSeq(date_str, 5, 6)).v)

\* parse_option_symbol from `let underlying` on; strike_str is
\* &contract[date_start + 7..], a slice that may panic
OptionDetails(underlying, date_str, type_char, strike_str) ==
    IF underlying = <<>> THEN Err
    ELSE IF ~ExpirationDate(date_str).some THEN Err
    ELSE IF type_char \notin {"C", "P"} THEN Err
    ELSE IF strike_str.tag = "panic" THEN Panicked
    ELSE IF ParseF64(strike_str.v).tag # "ok" THEN Err
    ELSE Ok([underlying |-> underlying,
             expiration_date |-> ExpirationDate(date_str).v,
             option_type |-> IF type_char = "C" THEN "call" ELSE "put",
             strike_price |-> RDiv(ParseF64(strike_str.v).v, R(StrikeScale))])

\* parse_option_symbol after the loop: found is what the loop left in date_start
DecodeAt(contract, found) ==
    IF found.tag = "panic" THEN Panicked
    ELSE IF found.v = 0 THEN Err
    ELSE OptionDetails(Trim(ByteSlice(contract, 0, found.v).v),
                       ByteSlice(contract, found.v, found.v + 6).v,
                       CharsNth(contract, found.v + 6).v,
                       ByteSlice(contract, found.v + 7, ByteLen(contract)))

\* parse_option_symbol on the trimmed contract
DecodeContract(contract) ==
    IF ByteLen(contract) < MinContractLen THEN Err
    ELSE DecodeAt(contract, FindDateStart(contract, 0))

parse_option_symbol(raw) == DecodeContract(Trim(raw))

(* A line of the file, as line.trim() and line.split('|') see it:            *)
(*   kind     "blank" (empty after trim), "other" (no record prefix),        *)
(*            "STK_TRD" or "OPT_TRD" (the trimmed line starts with it and |) *)
(*   indent   whether the raw line starts with white space                   *)
(*   nfields  the number of pipe-delimited fields, the prefix included       *)
(*   fields[1] id, [2] symbol, [5] action, [7] date, [8] time are texts;     *)
(*   fields[10] quantity, [11] multiplier, [12] price, [13] total, [14] fees *)
(*   are given by what str::parse::<f64> returns for them, Ok(value) or Err. *)
(* name, exchange, currency and fx_rate are copied and never decide a        *)
(* result: they are left out.                                                *)
NumFields == 16

\* the fields of a record from the action on, in source order
FieldsFrom(line, action, execution_date) ==
    IF ~action.some THEN Err
    ELSE IF execution_date.tag # "ok" THEN execution_date
    ELSE IF line.quantity.tag # "ok" THEN Err
    ELSE IF line.multiplier.tag # "ok" THEN Err
    ELSE IF line.price.tag # "ok" THEN Err
    ELSE IF line.total.tag # "ok" THEN Err
    ELSE IF line.fees.tag # "ok" THEN Err
    ELSE Ok([broker_execution_id |-> line.id,
             symbol |-> line.symbol,
             action |-> action.v,
             execution_date |-> execution_date.v,
             execution_time |-> line.time,
             quantity |-> line.quantity.v,
             multiplier |-> line.multiplier.v,
             price |-> line.price.v,
             total |-> line.total.v,
             fees |-> line.fees.v,
             asset_type |-> "stock",
             option_details |-> None])

\* the field-count test and the field parsing that parse_stock_transaction and
\* parse_option_transaction share
ParseFields(line) ==
    IF line.nfields < NumFields THEN Err
    ELSE FieldsFrom(line, ActionFromStr(line.action), parse_date(line.date))

parse_stock_transaction(line) == ParseFields(line)

\* the end of parse_option_transaction: the contract symbol is decoded last
WithOptionDetails(exec, option_details) ==
    IF option_details.tag # "ok" THEN option_details
    ELSE Ok([exec EXCEPT !.asset_type = "option",
                         !.option_details = Some(option_details.v)])

AfterFields(r, symbol) ==
    IF r.tag # "ok" THEN r ELSE WithOptionDetails(r.v, parse_option_symbol(symbol))

parse_option_transaction(line) == AfterFields(ParseFields(line), line.symbol)

\* the match on the record prefix in parse_tlg_file
ParseRecord(line) ==
    IF line.kind = "STK_TRD" THEN parse_stock_transaction(line)
    ELSE parse_option_transaction(line)

\* the loop of parse_tlg_file from line number n on; PushResult is the match on
\* the Result of line n
RECURSIVE ParseLines(_, _, _, _)
RECURSIVE PushResult(_, _, _, _, _)
PushResult(lines, n, executions, errors, r) ==
    IF r.tag = "panic" THEN Panicked
    ELSE IF r.tag = "ok"
    THEN ParseLines(lines, n + 1, Append(executions, r.v), errors)
    ELSE ParseLines(lines, n + 1, executions,
                    Append(errors, [line_number |-> n, line_content |-> lines[n]]))

ParseLines(lines, n, executions, errors) ==
    IF n > Len(lines) THEN [tag |-> "ok", executions |-> executions, errors |-> errors]
    ELSE IF lines[n].kind \in {"blank", "other"}
    THEN ParseLines(lines, n + 1, executions, errors)
    ELSE PushResult(lines, n, executions, errors, ParseRecord(lines[n]))

parse_tlg_file(text) == ParseLines(text, 1, <<>>, <<>>)

----------------------------------------------------------------------------
(* services/import_service.rs *)

\* the characters of a time text in byte order, for String's Ord
TimeChars == <<"0", "1", "2", "3", "4", "5", "6", "7", "8", "9", ":">>
CharOrd(c) == CHOOSE i \in 1..Len(TimeChars) : TimeChars[i] = c

\* a < b for String: lexicographic on bytes
RECURSIVE StrLt(_, _)
StrLt(a, b) ==
    IF b = <<>> THEN FALSE
    ELSE IF a = <<>> THEN TRUE
    ELSE IF a[1] # b[1] THEN CharOrd(a[1]) < CharOrd(b[1])
    ELSE StrLt(Tail(a), Tail(b))

\* a variant of abs_fees that keeps the sign of the wire fee
abs_fees_Signed(exec) == exec.fees

abs_quantity(exec) == RAbs(exec.quantity)
abs_fees(exec) == RAbs(exec.fees)

underlying_symbol(exec) ==
    IF exec.option_details.some THEN exec.option_details.v.underlying ELSE exec.symbol

\* the comparator of sorted_executions.sort_by: a orders before b
ExecBefore(a, b) ==
    \/ DateLt(a.execution_date, b.execution_date)
    \/ /\ a.execution_date = b.execution_date
       /\ StrLt(a.execution_time, b.execution_time)

\* slice::sort_by is stable: x goes after every element it does not order before
RECURSIVE InsertExec(_, _)
InsertExec(sorted, x) ==
    IF sorted = <<>> THEN <<x>>
    ELSE IF ExecBefore(x, sorted[1]) THEN <<x>> \o sorted
    ELSE <<sorted[1]>> \o InsertExec(Tail(sorted), x)

\* a variant of SortExecutions that leaves the executions in line order
SortExecutions_LineOrder(s) == s

RECURSIVE SortExecutions(_)
SortExecutions(s) ==
    IF s = <<>> THEN <<>>
    ELSE InsertExec(SortExecutions(SubSeq(s, 1, Len(s) - 1)), s[Len(s)])

\* PositionTracker::new
TrackerNew(symbol, underlying, asset_type, option_details) ==
    [symbol |-> symbol, underlying_symbol |-> underlying, asset_class |-> asset_type,
     option_details |-> option_details, direction |-> None,
     entries |-> <<>>, exits |-> <<>>, open_quantity |-> R(0)]

\* PositionTracker::add_execution
add_execution(t, exec) ==
    LET qty == abs_quantity(exec)
    IN  IF is_opening(exec.action)
        THEN [t EXCEPT
                !.direction = IF ~t.direction.some
                              THEN Some(IF exec.action = "BUYTOOPEN" THEN "long" ELSE "short")
                              ELSE @,
                !.entries = Append(@, exec),
                !.open_quantity = RAdd(@, qty)]
        ELSE [t EXCEPT !.exits = Append(@, exec), !.open_quantity = RSub(@, qty)]

\* 0.0001 as EpsNum / EpsDen
EpsNum == 1
EpsDen == 10000
Epsilon == Rat(EpsNum, EpsDen)

\* PositionTracker::is_closed (no caller in the repository)
is_closed(t) ==
    RLe(t.open_quantity, Epsilon) /\ t.entries # <<>> /\ t.exits # <<>>

\* the closure that maps a TlgExecution to an Execution in to_aggregated_trade
ToExecution(e, type) ==
    [execution_type |-> type,
     execution_date |-> e.execution_date,
     execution_time |-> e.execution_time,
     quantity |-> abs_quantity(e),
     price |-> e.price,
     fees |-> abs_fees(e),
     broker_execution_id |-> e.broker_execution_id]

Quantities(s) == [i \in 1..Len(s) |-> s[i].quantity]
Values(s) == [i \in 1..Len(s) |-> RMul(s[i].quantity, s[i].price)]
Fees(s) == [i \in 1..Len(s) |-> s[i].fees]

OptionMultiplier == 100

\* the test that decides status = "closed" in calculate_derived
ClosedTest(exit_qty, total_quantity, exits) ==
    RGe(exit_qty, total_quantity) /\ exits # <<>>

GrossPnl(direction, avg_entry_price, avg_exit_price, total_quantity) ==
    IF direction = "long"
    THEN RMul(RSub(avg_exit_price, avg_entry_price), total_quantity)
    ELSE RMul(RSub(avg_entry_price, avg_exit_price), total_quantity)

Multiplier(asset_class) == IF asset_class = "option" THEN R(OptionMultiplier) ELSE R(1)

\* the closed branch of calculate_derived
DeriveClosed(trade, avg_exit_price) ==
    [trade EXCEPT
        !.status = "closed",
        !.avg_exit_price = Some(avg_exit_price),
        !.net_pnl = Some(RSub(RMul(GrossPnl(trade.direction, trade.avg_entry_price,
                                            avg_exit_price, trade.total_quantity),
                                   Multiplier(trade.asset_class)),
                              trade.total_fees))]

\* calculate_derived from `let exit_qty` on
DeriveStatus(trade, exit_qty, total_exit_value) ==
    IF ClosedTest(exit_qty, trade.total_quantity, trade.exits)
    THEN DeriveClosed(trade, RDiv(total_exit_value, exit_qty))
    ELSE [trade EXCEPT !.status = "open", !.avg_exit_price = None, !.net_pnl = None]

\* calculate_derived up to total_fees
DeriveTotals(trade, total_quantity, total_entry_value) ==
    [trade EXCEPT
        !.total_quantity = total_quantity,
        !.avg_entry_price = IF RGt(total_quantity, R(0))
                            THEN RDiv(total_entry_value, total_quantity) ELSE R(0),
        !.total_fees = RAdd(RSum(Fees(trade.entries)), RSum(Fees(trade.exits)))]

\* AggregatedTrade::calculate_derived
calculate_derived(trade) ==
    DeriveStatus(DeriveTotals(trade, RSum(Quantities(trade.entries)),
                              RSum(Values(trade.entries))),
                 RSum(Quantities(trade.exits)), RSum(Values(trade.exits)))

Epoch == <<1970, 1, 1>>

\* PositionTracker::to_aggregated_trade
to_aggregated_trade(t) ==
    LET entries == [i \in 1..Len(t.entries) |-> ToExecution(t.entries[i], "entry")]
        exits == [i \in 1..Len(t.exits) |-> ToExecution(t.exits[i], "exit")]
        trade_date == IF entries # <<>> THEN entries[1].execution_date ELSE Epoch
    IN  calculate_derived(
            [key |-> <<t.symbol, trade_date>>,
             symbol |-> t.symbol,
             underlying_symbol |-> t.underlying_symbol,
             asset_class |-> t.asset_class,
             option_type |-> IF t.option_details.some
                             THEN Some(t.option_details.v.option_type) ELSE None,
             strike_price |-> IF t.option_details.some
                              THEN Some(t.option_details.v.strike_price) ELSE None,
             expiration_date |-> IF t.option_details.some
                                 THEN Some(t.option_details.v.expiration_date) ELSE None,
             direction |-> IF t.direction.some THEN t.direction.v ELSE "long",
             trade_date |-> trade_date,
             entries |-> entries,
             exits |-> exits,
             status |-> "open",
             total_quantity |-> R(0),
             avg_entry_price |-> R(0),
             avg_exit_price |-> None,
             total_fees |-> R(0),
             net_pnl |-> None])

\* a variant of Track that keys the map by underlying symbol
RECURSIVE Track_ByUnderlying(_, _)
Track_ByUnderlying(execs, trackers) ==
    IF execs = <<>> THEN trackers
    ELSE LET exec == execs[1]
             symbol == underlying_symbol(exec)
             tracker == IF symbol \in DOMAIN trackers THEN trackers[symbol]
                        ELSE TrackerNew(exec.symbol, symbol, exec.asset_type,
                                        exec.option_details)
             rest == [k \in (DOMAIN trackers) \ {symbol} |-> trackers[k]]
         IN  Track_ByUnderlying(Tail(execs), (symbol :> add_execution(tracker, exec)) @@ rest)

\* the loop that feeds the sorted executions to the trackers: a HashMap from
\* raw symbol to PositionTracker, as a function
RECURSIVE Track(_, _)
Track(execs, trackers) ==
    IF execs = <<>> THEN trackers
    ELSE LET exec == execs[1]
             symbol == exec.symbol
             tracker == IF symbol \in DOMAIN trackers THEN trackers[symbol]
                        ELSE TrackerNew(symbol, underlying_symbol(exec), exec.asset_type,
                                        exec.option_details)
             rest == [k \in (DOMAIN trackers) \ {symbol} |-> trackers[k]]
         IN  Track(Tail(execs), (symbol :> add_execution(tracker, exec)) @@ rest)

\* closed_trades.sort_by / open_positions.sort_by on trade_date, stable
RECURSIVE InsertTrade(_, _)
InsertTrade(sorted, x) ==
    IF sorted = <<>> THEN <<x>>
    ELSE IF DateLt(x.trade_date, sorted[1].trade_date) THEN <<x>> \o sorted
    ELSE <<sorted[1]>> \o InsertTrade(Tail(sorted), x)

RECURSIVE SortTrades(_)
SortTrades(s) ==
    IF s = <<>> THEN <<>>
    ELSE InsertTrade(SortTrades(SubSeq(s, 1, Len(s) - 1)), s[Len(s)])

\* a variant of IsOpenTrade that lets every trade into the open positions
IsOpenTrade_Any(trade) == TRUE

IsClosedTrade(trade) == trade.status = "closed"
IsOpenTrade(trade) == trade.status # "closed"

\* the orders in which `for (_, tracker) in trackers` can visit the map: HashMap
\* iterates in an order fixed by its per-instance random hasher.  A seed is an
\* arrangement of all the keys the text can give; the map is visited in the
\* order the seed puts its keys in
Symbols(text) == {text[i].symbol : i \in 1..Len(text)}

Seeds(text) ==
    {o \in [1..Cardinality(Symbols(text)) -> Symbols(text)] :
        \A i, j \in DOMAIN o : i # j => o[i] # o[j]}

IterationOrder(trackers, seed) == SelectSeq(seed, LAMBDA k : k \in DOMAIN trackers)

NoTrackers == [k \in {} |-> 0]

\* the second loop of parse_and_aggregate and the two sorts
Collect(trades, errors) ==
    [tag |-> "ok",
     closed_trades |-> SortTrades(SelectSeq(trades, IsClosedTrade)),
     open_positions |-> SortTrades(SelectSeq(trades, IsOpenTrade)),
     errors |-> errors]

TradesInOrder(trackers, order) ==
    [i \in 1..Len(order) |-> to_aggregated_trade(trackers[order[i]])]

Aggregate(trackers, seed, errors) ==
    Collect(TradesInOrder(trackers, IterationOrder(trackers, seed)), errors)

\* parse_and_aggregate after parse_tlg_file returned result; a panic of the
\* parser unwinds through it
AggregateParsed(result, seed) ==
    IF result.tag = "panic" THEN Panicked
    ELSE Aggregate(Track(SortExecutions(result.executions), NoTrackers), seed,
                   result.errors)

\* ImportService::parse_and_aggregate, the map's hasher seeded with seed
parse_and_aggregate(text, seed) == AggregateParsed(parse_tlg_file(text), seed)

----------------------------------------------------------------------------
(* calculations/pnl.rs *)

calculate_gross_pnl(direction, entry_price, exit_price, quantity, multiplier) ==
    IF direction = "long"
    THEN RMul(RMul(RSub(exit_price, entry_price), quantity), multiplier)
    ELSE RMul(RMul(RSub(entry_price, exit_price), quantity), multiplier)

calculate_net_pnl(gross_pnl, fees) == RSub(gross_pnl, fees)

calculate_pnl_per_share(direction, entry_price, exit_price) ==
    IF direction = "long" THEN RSub(exit_price, entry_price)
    ELSE RSub(entry_price, exit_price)

calculate_risk_per_share(entry_price, stop_loss_price) ==
    IF RGt(RAbs(RSub(entry_price, stop_loss_price)), R(0))
    THEN Some(RAbs(RSub(entry_price, stop_loss_price)))
    ELSE None

calculate_r_multiple(pnl_per_share, risk_per_share) ==
    IF risk_per_share.some /\ RGt(risk_per_share.v, R(0))
    THEN Some(RDiv(pnl_per_share, risk_per_share.v))
    ELSE None

\* a variant of classify_result that counts a net P&L of zero as a win
classify_result_ZeroWins(net_pnl) ==
    IF RGe(net_pnl, R(0)) THEN "win" ELSE "loss"

classify_result(net_pnl) ==
    IF RGt(net_pnl, R(0)) THEN "win"
    ELSE IF RLt(net_pnl, R(0)) THEN "loss"
    ELSE "breakeven"

\* the fields that need the risk per share and the P&L per share
DerivedFrom(gross_pnl, net_pnl, pnl_per_share, risk_per_share) ==
    [gross_pnl |-> gross_pnl, net_pnl |-> net_pnl, pnl_per_share |-> pnl_per_share,
     risk_per_share |-> risk_per_share,
     r_multiple |-> IF pnl_per_share.some
                    THEN calculate_r_multiple(pnl_per_share.v, risk_per_share)
                    ELSE None,
     result |-> IF net_pnl.some THEN Some(classify_result(net_pnl.v)) ELSE None]

\* a variant of RiskPerShare that needs an exit price
RiskPerShare_OnlyExited(trade) ==
    IF trade.stop_loss_price.some /\ trade.exit_price.some
    THEN calculate_risk_per_share(trade.entry_price, trade.stop_loss_price.v)
    ELSE None

\* the risk per share of calculate_derived_fields
RiskPerShare(trade) ==
    IF trade.stop_loss_price.some
    THEN calculate_risk_per_share(trade.entry_price, trade.stop_loss_price.v)
    ELSE None

\* the (Some(exit), Some(qty)) arm of calculate_derived_fields
DerivedWithPnl(trade, gross) ==
    DerivedFrom(Some(gross), Some(calculate_net_pnl(gross, trade.fees)),
                Some(calculate_pnl_per_share(trade.direction, trade.entry_price,
                                             trade.exit_price.v)),
                RiskPerShare(trade))

calculate_derived_fields(trade) ==
    IF trade.exit_price.some /\ trade.quantity.some
    THEN DerivedWithPnl(trade,
             calculate_gross_pnl(trade.direction, trade.entry_price, trade.exit_price.v,
                                 trade.quantity.v, Multiplier(trade.asset_class)))
    ELSE DerivedFrom(None, None, None, RiskPerShare(trade))

----------------------------------------------------------------------------
(* services/trade_service.rs: create_trade on a database *)

ErrMsg(msg, ordinal) == [tag |-> "err", msg |-> msg, ordinal |-> ordinal]

\* the loop of validate_input over the exit legs, from leg i on
RECURSIVE ValidateExits(_, _)
ValidateExits(exits, i) ==
    IF i > Len(exits) THEN Ok(TRUE)
    ELSE IF RLe(exits[i].quantity, R(0)) THEN ErrMsg("Exit quantity must be greater than 0", i)
    ELSE IF RLe(exits[i].price, R(0)) THEN ErrMsg("Exit price must be greater than 0", i)
    ELSE IF exits[i].fees.some /\ RLt(exits[i].fees.v, R(0))
         THEN ErrMsg("Exit fees cannot be negative", i)
    ELSE ValidateExits(exits, i + 1)

validate_input(inp) ==
    IF RLe(inp.entry_price, R(0)) THEN ErrMsg("Entry price must be greater than 0", 0)
    ELSE IF inp.quantity.some /\ RLe(inp.quantity.v, R(0))
         THEN ErrMsg("Quantity must be greater than 0", 0)
    ELSE IF inp.exit_price.some /\ RLe(inp.exit_price.v, R(0))
         THEN ErrMsg("Exit price must be greater than 0", 0)
    ELSE IF inp.stop_loss_price.some /\ RLe(inp.stop_loss_price.v, R(0))
         THEN ErrMsg("Stop loss price must be greater than 0", 0)
    ELSE IF inp.fees.some /\ RLt(inp.fees.v, R(0))
         THEN ErrMsg("Fees cannot be negative", 0)
    ELSE IF inp.exits.some THEN ValidateExits(inp.exits.v, 1)
    ELSE Ok(TRUE)

unwrap_or(option, default) == IF option.some THEN option.v ELSE default

\* exits.iter().filter_map(|e| e.exit_time.as_ref()).max()
RECURSIVE LatestExitTime(_, _)
LatestExitTime(exits, best) ==
    IF exits = <<>> THEN best
    ELSE LatestExitTime(Tail(exits),
             IF ~exits[1].exit_time.some THEN best
             ELSE IF ~best.some \/ ~StrLt(exits[1].exit_time.v, best.v) THEN exits[1].exit_time
             ELSE best)

\* exits.iter().filter_map(|e| e.fees).sum()
RECURSIVE ExitFees(_)
ExitFees(exits) ==
    IF exits = <<>> THEN R(0)
    ELSE RAdd(IF exits[1].fees.some THEN exits[1].fees.v ELSE R(0), ExitFees(Tail(exits)))

\* a variant of ExitStatus that takes a trade as closed only at the exact quantity
ExitStatus_Exact(entry_qty, total_exit_qty) ==
    IF RGt(entry_qty, R(0)) /\ total_exit_qty = entry_qty
    THEN Some("closed")
    ELSE IF RGt(total_exit_qty, R(0)) /\ RLt(total_exit_qty, entry_qty)
    THEN Some("open")
    ELSE None

ExitStatus(entry_qty, total_exit_qty) ==
    IF RGt(entry_qty, R(0)) /\ RLt(RAbs(RSub(total_exit_qty, entry_qty)), Epsilon)
    THEN Some("closed")
    ELSE IF RGt(total_exit_qty, R(0)) /\ RLt(total_exit_qty, entry_qty)
    THEN Some("open")
    ELSE None

\* a variant of ExceedsEntry that tolerates an excess of up to the epsilon
ExceedsEntry_BeyondEpsilon(entry_qty, total_exit_qty) ==
    RGt(entry_qty, R(0)) /\ RGt(total_exit_qty, RAdd(entry_qty, Epsilon))

\* the test that makes process_exits reject the exits
ExceedsEntry(entry_qty, total_exit_qty) ==
    RGt(entry_qty, R(0)) /\ RGt(total_exit_qty, entry_qty)

\* process_exits once the exits are known to be non-empty
ProcessLegs(exits, entry_qty, total_exit_qty, total_exit_fees) ==
    IF ExceedsEntry(entry_qty, total_exit_qty)
    THEN ErrMsg("Total exit quantity cannot exceed entry quantity", 0)
    ELSE Ok([exit_price |-> Some(IF RGt(total_exit_qty, R(0))
                                 THEN RDiv(RSum(Values(exits)), total_exit_qty)
                                 ELSE R(0)),
             exit_time |-> LatestExitTime(exits, None),
             fees |-> IF RGt(total_exit_fees, R(0)) THEN Some(total_exit_fees) ELSE None,
             status |-> ExitStatus(entry_qty, total_exit_qty)])

process_exits(inp) ==
    IF ~inp.exits.some \/ inp.exits.v = <<>>
    THEN Ok([exit_price |-> None, exit_time |-> None, fees |-> None, status |-> None])
    ELSE ProcessLegs(inp.exits.v, unwrap_or(inp.quantity, R(0)),
                     RSum(Quantities(inp.exits.v)), ExitFees(inp.exits.v))

\* a variant of ProcessedInput that keeps an exit price given in the input
ProcessedInput_KeepExitPrice(inp, agg) ==
    [inp EXCEPT
        !.exit_price = IF @.some THEN @ ELSE agg.exit_price,
        !.exit_time = IF agg.exit_time.some THEN agg.exit_time ELSE @,
        !.fees = IF agg.fees.some THEN Some(RAdd(unwrap_or(@, R(0)), agg.fees.v)) ELSE @,
        !.status = IF agg.status.some THEN agg.status ELSE @]

\* processed_input of create_trade
ProcessedInput(inp, agg) ==
    [inp EXCEPT
        !.exit_price = IF agg.exit_price.some THEN agg.exit_price ELSE @,
        !.exit_time = IF agg.exit_time.some THEN agg.exit_time ELSE @,
        !.fees = IF agg.fees.some THEN Some(RAdd(unwrap_or(@, R(0)), agg.fees.v)) ELSE @,
        !.status = IF agg.status.some THEN agg.status ELSE @]

\* InstrumentRepository: the instruments table is a set of rows, ids are fresh
get_by_symbol(database, symbol) ==
    {i \in database.instruments : i.symbol = ToUppercase(symbol)}

FreshInstrumentId(database) == Cardinality(database.instruments) + 1

WithAssetClass(database, existing, requested) ==
    [database EXCEPT !.instruments =
        (@ \ {existing}) \cup {[existing EXCEPT !.asset_class = requested]}]

\* get_or_create_with_asset_class: the database after it and the row it returns
get_or_create_with_asset_class(database, symbol, asset_class) ==
    IF get_by_symbol(database, symbol) # {}
    THEN LET existing == CHOOSE i \in get_by_symbol(database, symbol) : TRUE
         IN  IF asset_class.some /\ existing.asset_class # asset_class.v
             THEN [db |-> WithAssetClass(database, existing, asset_class.v),
                   instrument |-> [existing EXCEPT !.asset_class = asset_class.v]]
             ELSE [db |-> database, instrument |-> existing]
    ELSE LET created == [id |-> FreshInstrumentId(database), symbol |-> ToUppercase(symbol),
                         asset_class |-> unwrap_or(asset_class, "stock")]
         IN  [db |-> [database EXCEPT !.instruments = @ \cup {created}],
              instrument |-> created]

\* the row TradeRepository::insert writes, read back joined with its instrument
TradeRow(database, user_id, instrument, inp) ==
    [id |-> Len(database.trades) + 1, user_id |-> user_id, account_id |-> inp.account_id,
     instrument_id |-> instrument.id, symbol |-> instrument.symbol,
     asset_class |-> instrument.asset_class, trade_date |-> inp.trade_date,
     direction |-> inp.direction, quantity |-> inp.quantity,
     entry_price |-> inp.entry_price, exit_price |-> inp.exit_price,
     stop_loss_price |-> inp.stop_loss_price, exit_time |-> inp.exit_time,
     fees |-> unwrap_or(inp.fees, R(0)), status |-> unwrap_or(inp.status, "closed")]

\* insert_exit_execution for every exit leg of the input, in order
ExitRows(trade_id, exits) ==
    [i \in 1..Len(exits) |->
        [trade_id |-> trade_id, execution_type |-> "exit",
         execution_date |-> exits[i].exit_date, execution_time |-> exits[i].exit_time,
         quantity |-> exits[i].quantity, price |-> exits[i].price,
         fees |-> unwrap_or(exits[i].fees, R(0))]]

with_derived_fields(trade) == [trade |-> trade, derived |-> calculate_derived_fields(trade)]

\* create_trade from TradeRepository::insert on
InsertTradeAndExits(database, inp, trade) ==
    [result |-> Ok(with_derived_fields(trade)),
     db |-> [database EXCEPT
                !.trades = Append(@, trade),
                !.trade_executions =
                    @ \o ExitRows(trade.id, IF inp.exits.some THEN inp.exits.v ELSE <<>>)]]

\* create_trade from the instrument lookup on
StoreTrade(user_id, inp, processed_input, found) ==
    InsertTradeAndExits(found.db, inp,
                        TradeRow(found.db, user_id, found.instrument, processed_input))

\* a variant of CreateProcessed that looks the instrument up before the exits
\* are processed
CreateProcessed_InstrumentFirst(database, user_id, inp, processed) ==
    IF processed.tag = "err"
    THEN [result |-> processed,
          db |-> get_or_create_with_asset_class(database, inp.symbol, inp.asset_class).db]
    ELSE StoreTrade(user_id, inp, ProcessedInput(inp, processed.v),
                    get_or_create_with_asset_class(
                        database, inp.symbol, ProcessedInput(inp, processed.v).asset_class))

\* create_trade after validate_input accepted the input
CreateProcessed(database, user_id, inp, processed) ==
    IF processed.tag = "err" THEN [result |-> processed, db |-> database]
    ELSE StoreTrade(user_id, inp, ProcessedInput(inp, processed.v),
                    get_or_create_with_asset_class(
                        database, inp.symbol, ProcessedInput(inp, processed.v).asset_class))

\* TradeService::create_trade: what it returns and the database it leaves
create_trade(database, user_id, inp) ==
    IF validate_input(inp).tag = "err" THEN [result |-> validate_input(inp), db |-> database]
    ELSE CreateProcessed(database, user_id, inp, process_exits(inp))

----------------------------------------------------------------------------
(* calculations/aggregations.rs *)

\* f64::INFINITY
Infinity == <<1, 0>>

\* f64::max and i32::max
RMax(a, b) == IF RLt(a, b) THEN b ELSE a
Max(a, b) == IF a < b THEN b ELSE a

\* the net P&L values of a sequence of trades that all carry one
NetPnls(trades) == [i \in 1..Len(trades) |-> trades[i].net_pnl.v]

\* sort_by_key(|t| t.trade.trade_date) is stable: x goes after every trade whose
\* date is not later than its own
RECURSIVE InsertByDate(_, _)
InsertByDate(sorted, x) ==
    IF sorted = <<>> THEN <<x>>
    ELSE IF DateLt(x.trade_date, sorted[1].trade_date) THEN <<x>> \o sorted
    ELSE <<sorted[1]>> \o InsertByDate(Tail(sorted), x)

\* a variant of SortByDate that leaves the trades in input order
SortByDate_InputOrder(trades) == trades

RECURSIVE SortByDate(_)
SortByDate(trades) ==
    IF trades = <<>> THEN <<>>
    ELSE InsertByDate(SortByDate(SubSeq(trades, 1, Len(trades) - 1)), trades[Len(trades)])

\* dates.sort() on the keys of daily_pnl
RECURSIVE SortDates(_)
SortDates(dates) ==
    IF dates = {} THEN <<>>
    ELSE LET first == CHOOSE d \in dates : \A e \in dates : ~DateLt(e, d)
         IN  <<first>> \o SortDates(dates \ {first})

\* daily_pnl[&date]: the net P&L of the trades of the date, added in trade order
DailyPnl(trades, date) ==
    RSum(NetPnls(SelectSeq(trades, LAMBDA t : t.net_pnl.some /\ t.trade_date = date)))

\* a variant of DailyPnlKeys that holds the date of every trade
DailyPnlKeys_AllDates(trades) == {trades[i].trade_date : i \in 1..Len(trades)}

\* the keys of daily_pnl
DailyPnlKeys(trades) ==
    {trades[i].trade_date : i \in {j \in 1..Len(trades) : trades[j].net_pnl.some}}

RECURSIVE CurveFrom(_, _, _, _)

\* a variant of PushPoint that measures the drawdown from the point's own value
\* when the peak so far is the initial one
PushPoint_PeakFromFirst(trades, dates, cumulative_pnl, peak) ==
    <<[date |-> dates[1], cumulative_pnl |-> cumulative_pnl,
       drawdown |-> IF peak = R(0) THEN R(0)
                    ELSE RSub(RMax(peak, cumulative_pnl), cumulative_pnl)]>>
        \o CurveFrom(trades, Tail(dates), cumulative_pnl, RMax(peak, cumulative_pnl))

\* the body of the loop of calculate_equity_curve after cumulative_pnl is updated
PushPoint(trades, dates, cumulative_pnl, peak) ==
    <<[date |-> dates[1], cumulative_pnl |-> cumulative_pnl,
       drawdown |-> RSub(RMax(peak, cumulative_pnl), cumulative_pnl)]>>
        \o CurveFrom(trades, Tail(dates), cumulative_pnl, RMax(peak, cumulative_pnl))

\* the loop of calculate_equity_curve over the sorted dates
CurveFrom(trades, dates, cumulative_pnl, peak) ==
    IF dates = <<>> THEN <<>>
    ELSE PushPoint(trades, dates, RAdd(cumulative_pnl, DailyPnl(trades, dates[1])), peak)

calculate_equity_curve(trades) ==
    CurveFrom(trades, SortDates(DailyPnlKeys(trades)), R(0), R(0))

calculate_equity_curve_owned(trades) == calculate_equity_curve(trades)

\* a variant of MaxDrawdown that reads the drawdown of the last point
MaxDrawdown_Last(curve) ==
    IF curve = <<>> THEN R(0) ELSE curve[Len(curve)].drawdown

\* equity_curve.iter().map(|p| p.drawdown).fold(0.0, f64::max)
RECURSIVE MaxDrawdown(_)
MaxDrawdown(curve) ==
    IF curve = <<>> THEN R(0)
    ELSE RMax(MaxDrawdown(SubSeq(curve, 1, Len(curve) - 1)), curve[Len(curve)].drawdown)

\* the row daily_map.entry(date).or_insert_with(..) inserts
NewDay(date) ==
    [date |-> date, realized_net_pnl |-> R(0), trade_count |-> 0,
     win_count |-> 0, loss_count |-> 0]

\* a variant of AddToDay that counts a breakeven as a win
AddToDay_BreakevenWins(row, net_pnl, result) ==
    [row EXCEPT !.realized_net_pnl = RAdd(@, net_pnl),
                !.trade_count = @ + 1,
                !.win_count = IF result # Some("loss") THEN @ + 1 ELSE @,
                !.loss_count = IF result = Some("loss") THEN @ + 1 ELSE @]

\* the updates of the day's row in the loop of calculate_daily_metrics
AddToDay(row, net_pnl, result) ==
    [row EXCEPT !.realized_net_pnl = RAdd(@, net_pnl),
                !.trade_count = @ + 1,
                !.win_count = IF result = Some("win") THEN @ + 1 ELSE @,
                !.loss_count = IF result = Some("loss") THEN @ + 1 ELSE @]

\* a variant of DayEntry that starts a new row for every trade
DayEntry_Fresh(daily_map, date) == NewDay(date)

\* daily_map.entry(date).or_insert_with(..)
DayEntry(daily_map, date) ==
    IF date \in DOMAIN daily_map THEN daily_map[date] ELSE NewDay(date)

\* one iteration of the loop of calculate_daily_metrics; daily_map is a
\* function from dates to rows
AddTradeToDay(daily_map, trade) ==
    IF trade.net_pnl.some
    THEN [d \in DOMAIN daily_map \cup {trade.trade_date} |->
             IF d = trade.trade_date
             THEN AddToDay(DayEntry(daily_map, d), trade.net_pnl.v, trade.result)
             ELSE daily_map[d]]
    ELSE daily_map

RECURSIVE DailyMap(_, _)
DailyMap(daily_map, trades) ==
    IF trades = <<>> THEN daily_map
    ELSE DailyMap(AddTradeToDay(daily_map, trades[1]), Tail(trades))

\* daily_map.into_values() sorted by date: the keys are distinct, so the order
\* in which the map yields its values does not show
SortedRows(daily_map, dates) == [i \in 1..Len(dates) |-> daily_map[dates[i]]]

RowsByDate(daily_map) == SortedRows(daily_map, SortDates(DOMAIN daily_map))

calculate_daily_metrics(trades) == RowsByDate(DailyMap(<<>>, trades))

\* the counters of calculate_period_metrics before its loop
Counters ==
    [total_net_pnl |-> R(0), win_count |-> 0, loss_count |-> 0, breakeven_count |-> 0,
     total_wins |-> R(0), total_losses |-> R(0),
     current_win_streak |-> 0, current_loss_streak |-> 0,
     max_win_streak |-> 0, max_loss_streak |-> 0]

\* the match on trade.result in the loop of calculate_period_metrics
CountResult(c, net_pnl, result) ==
    CASE result = Some("win") ->
             [c EXCEPT !.win_count = @ + 1,
                       !.total_wins = RAdd(@, net_pnl),
                       !.current_win_streak = @ + 1,
                       !.current_loss_streak = 0,
                       !.max_win_streak = Max(@, c.current_win_streak + 1)]
      [] result = Some("loss") ->
             [c EXCEPT !.loss_count = @ + 1,
                       !.total_losses = RAdd(@, net_pnl),
                       !.current_loss_streak = @ + 1,
                       !.current_win_streak = 0,
                       !.max_loss_streak = Max(@, c.current_loss_streak + 1)]
      [] result = Some("breakeven") ->
             [c EXCEPT !.breakeven_count = @ + 1,
                       !.current_win_streak = 0,
                       !.current_loss_streak = 0]
      [] OTHER -> c

\* one iteration of the loop of calculate_period_metrics
CountTrade(c, trade) ==
    IF trade.net_pnl.some
    THEN CountResult([c EXCEPT !.total_net_pnl = RAdd(@, trade.net_pnl.v)],
                     trade.net_pnl.v, trade.result)
    ELSE c

RECURSIVE CountTrades(_, _)
CountTrades(c, trades) ==
    IF trades = <<>> THEN c
    ELSE CountTrades(CountTrade(c, trades[1]), Tail(trades))

WinRate(win_count, decisive_count) ==
    IF decisive_count > 0 THEN Some(Rat(win_count, decisive_count)) ELSE None

\* avg_win and avg_loss
Average(total, count) ==
    IF count > 0 THEN Some(RDiv(total, R(count))) ELSE None

\* a variant of ProfitFactor without the infinite value
ProfitFactor_Finite(total_wins, total_losses) ==
    IF RLt(total_losses, R(0)) THEN Some(RDiv(total_wins, RAbs(total_losses)))
    ELSE None

ProfitFactor(total_wins, total_losses) ==
    IF RLt(total_losses, R(0)) THEN Some(RDiv(total_wins, RAbs(total_losses)))
    ELSE IF RGt(total_wins, R(0)) THEN Some(Infinity)
    ELSE None

\* a variant of Expectancy that reads a missing average loss as 0
Expectancy_WinsOnly(win_rate, avg_win, avg_loss) ==
    IF win_rate.some /\ avg_win.some
    THEN Some(RAdd(RMul(win_rate.v, avg_win.v),
                   RMul(RSub(R(1), win_rate.v), unwrap_or(avg_loss, R(0)))))
    ELSE None

Expectancy(win_rate, avg_win, avg_loss) ==
    IF win_rate.some /\ avg_win.some /\ avg_loss.some
    THEN Some(RAdd(RMul(win_rate.v, avg_win.v),
                   RMul(RSub(R(1), win_rate.v), avg_loss.v)))
    ELSE None

\* PeriodMetrics::default()
DefaultPeriodMetrics ==
    [total_net_pnl |-> R(0), trade_count |-> 0, win_count |-> 0, loss_count |-> 0,
     breakeven_count |-> 0, win_rate |-> None, avg_win |-> None, avg_loss |-> None,
     profit_factor |-> None, expectancy |-> None, max_drawdown |-> R(0),
     max_win_streak |-> 0, max_loss_streak |-> 0]

\* calculate_period_metrics after its loop: c the counters, win_rate, avg_win
\* and avg_loss the values derived from them
PeriodMetricsOf(c, win_rate, avg_win, avg_loss, sorted_trades) ==
    [total_net_pnl |-> c.total_net_pnl,
     trade_count |-> c.win_count + c.loss_count + c.breakeven_count,
     win_count |-> c.win_count, loss_count |-> c.loss_count,
     breakeven_count |-> c.breakeven_count,
     win_rate |-> win_rate, avg_win |-> avg_win, avg_loss |-> avg_loss,
     profit_factor |-> ProfitFactor(c.total_wins, c.total_losses),
     expectancy |-> Expectancy(win_rate, avg_win, avg_loss),
     max_drawdown |-> MaxDrawdown(calculate_equity_curve(sorted_trades)),
     max_win_streak |-> c.max_win_streak, max_loss_streak |-> c.max_loss_streak]

PeriodMetricsFrom(c, sorted_trades) ==
    PeriodMetricsOf(c, WinRate(c.win_count, c.win_count + c.loss_count),
                    Average(c.total_wins, c.win_count),
                    Average(c.total_losses, c.loss_count), sorted_trades)

PeriodMetricsSorted(sorted_trades) ==
    PeriodMetricsFrom(CountTrades(Counters, sorted_trades), sorted_trades)

calculate_period_metrics(trades) ==
    IF trades = <<>> THEN DefaultPeriodMetrics
    ELSE PeriodMetricsSorted(SortByDate(trades))

----------------------------------------------------------------------------
(* services/import_service.rs: execute_import on a database *)

\* execution_exists: a row of trade_executions has the broker id
execution_exists(database, broker_execution_id) ==
    \E i \in 1..Len(database.trade_executions) :
        database.trade_executions[i].broker_execution_id = broker_execution_id

\* the loop of execute_import over trade.entries
HasDuplicate(database, trade) ==
    \E i \in 1..Len(trade.entries) :
        execution_exists(database, trade.entries[i].broker_execution_id)

\* get_or_create_instrument: the database after it
WithImportedInstrument(database, trade) ==
    IF \E i \in database.instruments : i.symbol = trade.symbol THEN database
    ELSE [database EXCEPT !.instruments =
             @ \cup {[id |-> Cardinality(@) + 1, symbol |-> trade.symbol,
                      asset_class |-> trade.asset_class]}]

ImportedInstrumentId(database, trade) ==
    (CHOOSE i \in database.instruments : i.symbol = trade.symbol).id

\* create_trade_record: the row it inserts
ImportedTradeRow(database, user_id, account_id, trade) ==
    [id |-> Len(database.trades) + 1, user_id |-> user_id, account_id |-> account_id,
     instrument_id |-> ImportedInstrumentId(database, trade),
     trade_date |-> trade.trade_date, direction |-> trade.direction,
     quantity |-> trade.total_quantity, entry_price |-> trade.avg_entry_price,
     exit_price |-> trade.avg_exit_price,
     entry_time |-> IF trade.entries # <<>>
                    THEN Some(trade.entries[1].execution_time) ELSE None,
     exit_time |-> IF trade.exits # <<>>
                   THEN Some(trade.exits[Len(trade.exits)].execution_time) ELSE None,
     fees |-> trade.total_fees,
     status |-> IF trade.status = "closed" THEN "closed" ELSE "open"]

\* insert_execution: the INSERT fails when the schema makes broker_execution_id
\* unique and a row has the id already
insert_execution(database, trade_id, execution) ==
    IF database.unique_broker_id
           /\ execution_exists(database, execution.broker_execution_id)
    THEN [ok |-> FALSE, db |-> database]
    ELSE [ok |-> TRUE,
          db |-> [database EXCEPT !.trade_executions =
                     Append(@, [trade_id |-> trade_id,
                                execution_type |-> execution.execution_type,
                                execution_date |-> execution.execution_date,
                                execution_time |-> execution.execution_time,
                                quantity |-> execution.quantity,
                                price |-> execution.price,
                                fees |-> execution.fees,
                                broker_execution_id |-> execution.broker_execution_id])]]

\* the two loops of import_single_trade over entries and exits: the first
\* failing INSERT returns the error, the rows written before it stay
RECURSIVE InsertExecutions(_, _, _)
InsertExecutions(database, trade_id, executions) ==
    IF executions = <<>> THEN [ok |-> TRUE, db |-> database]
    ELSE IF ~insert_execution(database, trade_id, executions[1]).ok
    THEN [ok |-> FALSE, db |-> database]
    ELSE InsertExecutions(insert_execution(database, trade_id, executions[1]).db,
                          trade_id, Tail(executions))

\* import_single_trade from create_trade_record on; database holds the instrument
ImportTradeRecord(database, user_id, account_id, trade) ==
    InsertExecutions(
        [database EXCEPT !.trades =
            Append(@, ImportedTradeRow(database, user_id, account_id, trade))],
        Len(database.trades) + 1, trade.entries \o trade.exits)

import_single_trade(database, user_id, account_id, trade) ==
    ImportTradeRecord(WithImportedInstrument(database, trade), user_id, account_id, trade)

NoImportResult == [imported_count |-> 0, skipped_duplicates |-> 0, errors |-> <<>>]

\* the match on the result r of import_single_trade
Counted(result, trade, r) ==
    IF r.ok THEN [result EXCEPT !.imported_count = @ + 1]
    ELSE [result EXCEPT !.errors = Append(@, trade.symbol)]

\* the loop of execute_import; the value is the ImportResult and the database
RECURSIVE ImportTrades(_, _, _, _, _, _)
ImportTrades(database, user_id, account_id, trades, skip_duplicates, result) ==
    IF trades = <<>> THEN [result |-> result, db |-> database]
    ELSE IF skip_duplicates /\ HasDuplicate(database, trades[1])
    THEN ImportTrades(database, user_id, account_id, Tail(trades), skip_duplicates,
                      [result EXCEPT !.skipped_duplicates = @ + 1])
    ELSE ImportTrades(import_single_trade(database, user_id, account_id, trades[1]).db,
                      user_id, account_id, Tail(trades), skip_duplicates,
                      Counted(result, trades[1],
                              import_single_trade(database, user_id, account_id, trades[1])))

execute_import(database, user_id, account_id, trades, skip_duplicates) ==
    ImportTrades(database, user_id, account_id, trades, skip_duplicates, NoImportResult)

----------------------------------------------------------------------------
(* The texts of the model *)

AAPL == <<"A", "A", "P", "L">>
AAPL6 == <<"A", "A", "P", "L", " ", " ">>
Exp250905 == <<"2", "5", "0", "9", "0", "5">>
Strike240 == <<"0", "0", "2", "4", "0", "0", "0", "0">>
Strike250 == <<"0", "0", "2", "5", "0", "0", "0", "0">>
\* AAPL  250905C00240000 and AAPL  250905C00250000
OptAAPL240 == AAPL6 \o Exp250905 \o <<"C">> \o Strike240
OptAAPL250 == AAPL6 \o Exp250905 \o <<"C">> \o Strike250
\* the same contract with a two-byte first letter
OptWide == <<EAcute, "A", "P", "L", " ", " ">> \o Exp250905 \o <<"C">> \o Strike240

D20260127 == <<"2", "0", "2", "6", "0", "1", "2", "7">>
D20260126 == <<"2", "0", "2", "6", "0", "1", "2", "6">>
D20250904 == <<"2", "0", "2", "5", "0", "9", "0", "4">>
D20260230 == <<"2", "0", "2", "6", "0", "2", "3", "0">>
\* eight bytes, byte 4 inside the two-byte character
DWide == <<"2", "0", "2", EAcute, "1", "2", "7">>

\* eight bytes of which the first is a sign: the year slice is +202
DSigned == <<"+", "2", "0", "2", "0", "1", "2", "7">>

T0900 == <<"0", "9", ":", "0", "0", ":", "0", "0">>
T0930 == <<"0", "9", ":", "3", "0", ":", "0", "0">>
T1000 == <<"1", "0", ":", "0", "0", ":", "0", "0">>
T1030 == <<"1", "0", ":", "3", "0", ":", "0", "0">>

Line(kind, indent, nfields, id, symbol, action, date, time, quantity, multiplier, price, fees) ==
    [kind |-> kind, indent |-> indent, nfields |-> nfields, id |-> id, symbol |-> symbol,
     action |-> action, date |-> date, time |-> time, quantity |-> quantity,
     multiplier |-> multiplier, price |-> price,
     total |-> IF quantity.tag = "ok" /\ price.tag = "ok"
               THEN Ok(RMul(quantity.v, price.v)) ELSE Err,
     fees |-> fees]

\* a well-formed STK_TRD / OPT_TRD record of 16 fields
Stk(id, symbol, action, date, time, quantity, price, fees) ==
    Line("STK_TRD", FALSE, NumFields, id, symbol, action, date, time,
         Ok(quantity), Ok(R(1)), Ok(price), Ok(fees))

Opt(id, symbol, action, date, time, quantity, price, fees) ==
    Line("OPT_TRD", FALSE, NumFields, id, symbol, action, date, time,
         Ok(quantity), Ok(R(OptionMultiplier)), Ok(price), Ok(fees))

BlankLine == Line("blank", FALSE, 1, "", <<>>, "", <<>>, <<>>, Err, Err, Err, Err)
HeaderLine == Line("other", FALSE, 1, "", <<>>, "", <<>>, <<>>, Err, Err, Err, Err)

BuyAAPL == Stk("1001", AAPL, "BUYTOOPEN", D20260127, T0930, R(100), R(150), R(-1))
SellAAPL == Stk("1002", AAPL, "SELLTOCLOSE", D20260127, T1000, R(-100), R(155), R(-1))
BuyOpt240 == Opt("1006", OptAAPL240, "BUYTOOPEN", D20250904, T0930, R(5), Rat(3, 2), R(-4))

\* the lines a text of the parser specification is made of
ParserLines ==
    { BuyAAPL,
      BuyOpt240,
      BlankLine,
      HeaderLine,
      [BuyAAPL EXCEPT !.id = "2001", !.indent = TRUE, !.action = "selltoclose"],
      [BuyAAPL EXCEPT !.id = "2002", !.nfields = NumFields - 1],
      [BuyAAPL EXCEPT !.id = "2003", !.nfields = NumFields + 1],
      [BuyAAPL EXCEPT !.id = "2004", !.action = "HOLD"],
      [BuyAAPL EXCEPT !.id = "2005", !.date = D20260230],
      [BuyAAPL EXCEPT !.id = "2006", !.date = DWide],
      [BuyOpt240 EXCEPT !.id = "2007", !.symbol = OptWide],
      [BuyOpt240 EXCEPT !.id = "2008", !.quantity = Err, !.symbol = OptWide],
      [BuyAAPL EXCEPT !.id = "2009", !.date = DSigned] }

\* the lines a text of the aggregation specification is made of
AggregatorLines ==
    { BuyAAPL,
      SellAAPL,
      Stk("1003", AAPL, "BUYTOCLOSE", D20260127, T1030, R(150), R(160), R(-1)),
      BuyOpt240,
      Opt("1007", OptAAPL240, "SELLTOCLOSE", D20250904, T1000, R(-5), R(2), R(-4)),
      Opt("1008", OptAAPL250, "BUYTOOPEN", D20250904, T0930, R(5), R(1), R(-4)),
      Stk("1009", AAPL, "SELLTOOPEN", D20260126, T1030, R(-100), R(156), R(-1)),
      Stk("1010", AAPL, "SELLTOOPEN", D20260127, T0900, Rat(-1, 20000), R(150), R(-1)),
      [BuyAAPL EXCEPT !.id = "1011", !.nfields = NumFields - 1] }

MaxParserLines == 3
MaxAggregatorLines == 3

\* the texts of 1..n lines; those of the aggregation specification hold each line
\* once (a broker execution id is unique)
Texts(lines, n) == UNION {[1..k -> lines] : k \in 1..n}
DistinctTexts(lines, n) ==
    {t \in Texts(lines, n) : \A i, j \in 1..Len(t) : i # j => t[i] # t[j]}

NoInput == [tag |-> "none"]
NoDb == [instruments |-> {}, trades |-> <<>>, trade_executions |-> <<>>]

\* the exit legs of the model: two partial exits, a full exit, a leg below the
\* epsilon, a leg with quantity 0, a leg with a negative fee, a leg that is the
\* full quantity less half the epsilon and one that is it less the epsilon
ExitLeg(exit_time, quantity, price, fees) ==
    [id |-> None, exit_date |-> <<2026, 1, 28>>, exit_time |-> exit_time,
     quantity |-> quantity, price |-> price, fees |-> fees]

ExitLegs ==
    { ExitLeg(Some(T1000), R(4), R(16), None),
      ExitLeg(Some(T1030), R(6), R(17), Some(R(1))),
      ExitLeg(None, R(10), R(16), None),
      ExitLeg(Some(T0930), Rat(1, 20000), R(16), None),
      ExitLeg(None, R(0), R(16), None),
      ExitLeg(Some(T0900), R(4), R(16), Some(R(-1))),
      ExitLeg(None, Rat(199999, 20000), R(16), None),
      ExitLeg(None, Rat(99999, 10000), R(16), None) }

MaxExitLegs == 2

ExitLists == {None, Some(<<>>)} \cup {Some(legs) : legs \in Texts(ExitLegs, MaxExitLegs)}

\* the inputs of create_trade; the fields create_trade only copies into the row
\* (trade number, entry time, strategy, notes) are left out
TradeInputs ==
    [account_id : {"account"}, symbol : {"AAPL"}, asset_class : {None, Some("option")},
     trade_date : {<<2026, 1, 27>>}, direction : {"long", "short"},
     quantity : {None, Some(R(10)), Some(R(0))},
     entry_price : {R(15), R(0)},
     exit_price : {None, Some(R(16))},
     stop_loss_price : {None, Some(R(14))},
     exit_time : {None},
     fees : {None, Some(R(2)), Some(R(-1))},
     status : {None, Some("open")},
     exits : ExitLists]

\* inputs rejected for an exit price, a stop-loss price or an exit-leg price of 0
ValidInput ==
    [account_id |-> "account", symbol |-> "AAPL", asset_class |-> None,
     trade_date |-> <<2026, 1, 27>>, direction |-> "long", quantity |-> Some(R(10)),
     entry_price |-> R(15), exit_price |-> None, stop_loss_price |-> None,
     exit_time |-> None, fees |-> None, status |-> None, exits |-> None]

ZeroPriceInputs ==
    { [ValidInput EXCEPT !.exit_price = Some(R(0))],
      [ValidInput EXCEPT !.stop_loss_price = Some(R(0))],
      [ValidInput EXCEPT !.exits = Some(<<ExitLeg(None, R(4), R(0), None)>>)],
      [ValidInput EXCEPT !.exits = Some(<<ExitLeg(None, R(4), R(16), None),
                                          ExitLeg(None, R(4), R(0), None)>>)] }

\* a database that already holds the instrument
\* a long entry of 100 at 100 with the exit legs 60 at 110 and 40 at 115
PartialExitsInput ==
    [ValidInput EXCEPT
        !.quantity = Some(R(100)),
        !.entry_price = R(100),
        !.exits = Some(<<ExitLeg(Some(T1000), R(60), R(110), None),
                         ExitLeg(Some(T1030), R(40), R(115), None)>>)]

DbWithInstrument ==
    [NoDb EXCEPT !.instruments = {[id |-> 1, symbol |-> "AAPL", asset_class |-> "stock"]}]

UserId == "user"

----------------------------------------------------------------------------
(* parse_tlg_file on a text *)

InitParser ==
    /\ content \in Texts(ParserLines, MaxParserLines)
    /\ parsed = NotRun
    /\ run1 = NotRun /\ run2 = NotRun
    /\ input = NoInput /\ db = NoDb /\ outcome = NotRun

ParseFile ==
    /\ parsed = NotRun
    /\ parsed' = parse_tlg_file(content)
    /\ UNCHANGED <<content, run1, run2, input, db, outcome>>

NextParser == ParseFile

SpecParser == InitParser /\ [][NextParser]_vars

----------------------------------------------------------------------------
(* parse_and_aggregate, called twice on the same text *)

InitAggregator ==
    /\ content \in DistinctTexts(AggregatorLines, MaxAggregatorLines)
    /\ parsed = NotRun
    /\ run1 = NotRun /\ run2 = NotRun
    /\ input = NoInput /\ db = NoDb /\ outcome = NotRun

FirstRun ==
    /\ run1 = NotRun
    /\ parsed' = parse_tlg_file(content)
    /\ \E seed \in Seeds(content) : run1' = parse_and_aggregate(content, seed)
    /\ UNCHANGED <<content, run2, input, db, outcome>>

SecondRun ==
    /\ run1 # NotRun /\ run2 = NotRun
    /\ parsed' = parse_tlg_file(content)
    /\ \E seed \in Seeds(content) : run2' = parse_and_aggregate(content, seed)
    /\ UNCHANGED <<content, run1, input, db, outcome>>

NextAggregator == FirstRun \/ SecondRun

SpecAggregator == InitAggregator /\ [][NextAggregator]_vars

----------------------------------------------------------------------------
(* create_trade, called once on a database *)

InitTrade ==
    /\ content = <<>>
    /\ parsed = NotRun
    /\ run1 = NotRun /\ run2 = NotRun
    /\ input = NoInput
    /\ db \in {NoDb, DbWithInstrument}
    /\ outcome = NotRun

CreateTrade ==
    /\ outcome = NotRun
    /\ \E inp \in TradeInputs \cup ZeroPriceInputs \cup {PartialExitsInput} :
           /\ input' = inp
           /\ outcome' = create_trade(db, UserId, inp).result
           /\ db' = create_trade(db, UserId, inp).db
    /\ UNCHANGED <<content, parsed, run1, run2>>

NextTrade == CreateTrade

SpecTrade == InitTrade /\ [][NextTrade]_vars

----------------------------------------------------------------------------
(* calculate_derived_fields, applied to one trade *)

\* the trades handed to calculate_derived_fields: both directions and asset
\* classes, with and without a quantity, an exit price and a stop-loss price, the
\* exit above, at and below the entry, the stop below and at the entry, fees
\* that leave, cancel and exceed the gross of the long stock trade
DerivedTrades ==
    [direction : {"long", "short"},
     asset_class : {"stock", "option"},
     quantity : {None, Some(R(10)), Some(R(3))},
     entry_price : {R(15)},
     exit_price : {None, Some(R(16)), Some(R(15)), Some(R(14))},
     stop_loss_price : {None, Some(R(14)), Some(R(15))},
     fees : {R(0), R(2), R(10)}]

InitDerived ==
    /\ content = <<>>
    /\ parsed = NotRun
    /\ run1 = NotRun /\ run2 = NotRun
    /\ input \in DerivedTrades
    /\ db = NoDb
    /\ outcome = NotRun

Derive ==
    /\ outcome = NotRun
    /\ outcome' = Ok(calculate_derived_fields(input))
    /\ UNCHANGED <<content, parsed, run1, run2, input, db>>

NextDerived == Derive

SpecDerived == InitDerived /\ [][NextDerived]_vars

----------------------------------------------------------------------------
(* calculate_period_metrics, calculate_equity_curve_owned and              *)
(* calculate_daily_metrics on a trade list                               *)

Day1 == <<2024, 1, 31>>
Day2 == <<2024, 2, 1>>
Day3 == <<2024, 2, 2>>
Days == <<Day1, Day2, Day3>>

\* a trade with its derived fields, as with_derived_fields builds it: the result
\* is the classification of the net P&L, and absent with it
MetricTrade(trade_date, net_pnl) ==
    [trade_date |-> trade_date, net_pnl |-> net_pnl,
     result |-> IF net_pnl.some THEN Some(classify_result(net_pnl.v)) ELSE None]

\* wins, losses, a breakeven and a trade without net P&L (open, or without a
\* quantity) on three successive days
MetricTrades ==
    {MetricTrade(Days[d], net_pnl) :
        d \in 1..Len(Days),
        net_pnl \in {Some(R(1000)), Some(R(-800)), Some(R(-500)), Some(R(0)), None}}

MaxTrades == 3

TradeLists == {<<>>} \cup Texts(MetricTrades, MaxTrades)

InitMetrics ==
    /\ content = <<>>
    /\ parsed = NotRun
    /\ run1 = NotRun /\ run2 = NotRun
    /\ input \in TradeLists
    /\ db = NoDb
    /\ outcome = NotRun

PeriodMetrics ==
    /\ outcome = NotRun
    /\ outcome' = [tag |-> "metrics", v |-> calculate_period_metrics(input)]
    /\ UNCHANGED <<content, parsed, run1, run2, input, db>>

EquityCurve ==
    /\ outcome = NotRun
    /\ outcome' = [tag |-> "curve", v |-> calculate_equity_curve_owned(input)]
    /\ UNCHANGED <<content, parsed, run1, run2, input, db>>

DailyMetrics ==
    /\ outcome = NotRun
    /\ outcome' = [tag |-> "daily", v |-> calculate_daily_metrics(input)]
    /\ UNCHANGED <<content, parsed, run1, run2, input, db>>

NextMetrics == PeriodMetrics \/ EquityCurve \/ DailyMetrics

SpecMetrics == InitMetrics /\ [][NextMetrics]_vars

----------------------------------------------------------------------------
(* execute_import, called twice with the trades of one text *)

\* the lines a text of the import specification is made of
ImportLines ==
    { BuyAAPL,
      SellAAPL,
      BuyOpt240,
      Opt("1007", OptAAPL240, "SELLTOCLOSE", D20250904, T1000, R(-5), R(2), R(-4)),
      Stk("1009", AAPL, "SELLTOOPEN", D20260126, T1030, R(-100), R(156), R(-1)) }

MaxImportLines == 2

\* the empty database, with and without a UNIQUE constraint on
\* trade_executions.broker_execution_id
ImportDbs ==
    {[instruments |-> {}, trades |-> <<>>, trade_executions |-> <<>>,
      unique_broker_id |-> unique] : unique \in BOOLEAN}

InitImport ==
    /\ content \in DistinctTexts(ImportLines, MaxImportLines)
    /\ parsed = NotRun
    /\ run1 = NotRun /\ run2 = NotRun
    /\ input = NoInput
    /\ db \in ImportDbs
    /\ outcome = NotRun

\* parse_and_aggregate on the text
AggregateText ==
    /\ run1 = NotRun
    /\ parsed' = parse_tlg_file(content)
    /\ \E seed \in Seeds(content) : run1' = parse_and_aggregate(content, seed)
    /\ UNCHANGED <<content, run2, input, db, outcome>>

\* execute_import of the closed trades, or of all trades, of the text
FirstImport ==
    /\ run1.tag = "ok" /\ outcome = NotRun
    /\ \E skip_duplicates \in BOOLEAN,
          trades \in {run1.closed_trades, run1.closed_trades \o run1.open_positions} :
           /\ input' = [trades |-> trades, skip_duplicates |-> skip_duplicates]
           /\ outcome' = [tag |-> "imported", calls |-> 1,
                          v |-> execute_import(db, UserId, "account", trades,
                                               skip_duplicates).result]
           /\ db' = execute_import(db, UserId, "account", trades, skip_duplicates).db
    /\ UNCHANGED <<content, parsed, run1, run2>>

\* execute_import of the same trades with skip_duplicates = true
SecondImport ==
    /\ outcome.tag = "imported" /\ outcome.calls = 1
    /\ input' = [input EXCEPT !.skip_duplicates = TRUE]
    /\ outcome' = [tag |-> "imported", calls |-> 2,
                   v |-> execute_import(db, UserId, "account", input.trades, TRUE).result]
    /\ db' = execute_import(db, UserId, "account", input.trades, TRUE).db
    /\ UNCHANGED <<content, parsed, run1, run2>>

NextImport == AggregateText \/ FirstImport \/ SecondImport

SpecImport == InitImport /\ [][NextImport]_vars

----------------------------------------------------------------------------
(* parse_option_symbol on a packed contract symbol *)

\* the parts a packed symbol of the model is made of: underlyings padded, not
\* padded, one letter long, with digits, with a two-byte letter, blank and
\* empty; expiries valid, not a calendar date and one digit short; type
\* letters; strikes zero-padded, not padded, with a fraction, signed, not a
\* number and empty
SymbolUnderlyings ==
    { AAPL6, AAPL, <<"A">>, <<"A", "B", "1", "2", "3", "4">>,
      <<EAcute, "A", "P", "L", " ", " ">>, <<" ", " ">>, <<>> }
SymbolExpiries ==
    { Exp250905, <<"2", "5", "0", "2", "3", "0">>, <<"2", "5", "0", "9", "0">> }
SymbolTypes == { <<"C">>, <<"P">>, <<"X">> }
SymbolStrikes ==
    { Strike240, <<"2", "4", "0", "0", "0", "0">>, <<"2", "4", "0", ".", "5">>,
      <<"+", "0", "2", "4", "0", "0", "0", "0">>, <<"2", "4", "X", "0", "0", "0">>, <<>> }

PackedSymbols ==
    {u \o e \o t \o k :
        u \in SymbolUnderlyings, e \in SymbolExpiries, t \in SymbolTypes,
        k \in SymbolStrikes}

InitDecoder ==
    /\ content = <<>>
    /\ parsed = NotRun
    /\ run1 = NotRun /\ run2 = NotRun
    /\ input \in PackedSymbols
    /\ db = NoDb
    /\ outcome = NotRun

Decode ==
    /\ outcome = NotRun
    /\ outcome' = parse_option_symbol(input)
    /\ UNCHANGED <<content, parsed, run1, run2, input, db>>

NextDecoder == Decode

SpecDecoder == InitDecoder /\ [][NextDecoder]_vars

----------------------------------------------------------------------------
(* Properties of parse_tlg_file *)

RecordLines(text) == {i \in 1..Len(text) : text[i].kind \in {"STK_TRD", "OPT_TRD"}}

ErrorLineNumbers(r) == {r.errors[k].line_number : k \in 1..Len(r.errors)}

\* the ids of the lines of text numbered in keep, in line order, from line n on
RECURSIVE IdsOfLines(_, _, _)
IdsOfLines(text, keep, n) ==
    IF n > Len(text) THEN <<>>
    ELSE (IF n \in keep THEN <<text[n].id>> ELSE <<>>) \o IdsOfLines(text, keep, n + 1)

\* C1: whatever the text, parse_tlg_file returns, and each line that after
\* trimming starts with STK_TRD| or OPT_TRD| gives exactly one item, an execution
\* or a ParseError with its 1-based line number; no other line gives an item;
\* executions and errors are in line order; a failing line does not stop the
\* lines after it from being processed
C1_OneItemPerRecordLine ==
    parsed.tag # "notrun" =>
        /\ parsed.tag = "ok"
        /\ Len(parsed.executions) + Len(parsed.errors) = Cardinality(RecordLines(content))
        /\ ErrorLineNumbers(parsed) \subseteq RecordLines(content)
        /\ \A i, j \in 1..Len(parsed.errors) :
               i < j => parsed.errors[i].line_number < parsed.errors[j].line_number
        /\ [i \in 1..Len(parsed.executions) |-> parsed.executions[i].broker_execution_id]
               = IdsOfLines(content, RecordLines(content) \ ErrorLineNumbers(parsed), 1)

\* C2: parse_tlg_file is total: it never panics, whatever the text
C2_ParserNeverPanics == parsed.tag # "panic"

\* the record lines of the text that gave an execution
AcceptedLines == RecordLines(content) \ ErrorLineNumbers(parsed)

\* C23: a STK_TRD or OPT_TRD record is accepted only if it has exactly 16
\* pipe-delimited fields: a record with fewer and a record with more than 16
\* fields each give a ParseError and no execution
C23_ExactlySixteenFields ==
    parsed.tag = "ok" =>
        \A i \in RecordLines(content) :
            content[i].nfields # 16 => i \in ErrorLineNumbers(parsed)

\* eight ASCII digits YYYYMMDD that name a calendar date
IsCalendarDate(s) ==
    /\ Len(s) = 8
    /\ AllDigits(s)
    /\ FromYmdOpt(DigitsValue(SubSeq(s, 1, 4)), DigitsValue(SubSeq(s, 5, 6)),
                  DigitsValue(SubSeq(s, 7, 8))).some

\* a record line that is well formed but for its date field
WellFormedButDate(line) ==
    /\ line.nfields = 16
    /\ ActionFromStr(line.action).some
    /\ line.quantity.tag = "ok" /\ line.multiplier.tag = "ok"
    /\ line.price.tag = "ok" /\ line.total.tag = "ok" /\ line.fees.tag = "ok"
    /\ line.kind = "OPT_TRD" => parse_option_symbol(line.symbol).tag = "ok"

\* C24: the date field of a record is accepted if and only if it is exactly
\* eight ASCII digits YYYYMMDD that name a valid calendar date; every other
\* value (a sign among them) makes the record a ParseError
C24_StrictDate ==
    parsed.tag = "ok" =>
        \A i \in RecordLines(content) :
            /\ i \in AcceptedLines => IsCalendarDate(content[i].date)
            /\ (WellFormedButDate(content[i]) /\ IsCalendarDate(content[i].date))
                   => i \in AcceptedLines

----------------------------------------------------------------------------
(* Properties of parse_option_symbol *)

\* the positions of the symbol at which six ASCII digits are immediately
\* followed by C or P
PatternPositions(symbol) ==
    {i \in 1..(Len(symbol) - 6) :
        AllDigits(SubSeq(symbol, i, i + 5)) /\ symbol[i + 6] \in {"C", "P"}}

FirstPattern(symbol) ==
    CHOOSE i \in PatternPositions(symbol) : \A j \in PatternPositions(symbol) : i <= j

ExpirySubstring(symbol) == SubSeq(symbol, FirstPattern(symbol), FirstPattern(symbol) + 5)
StrikeSubstring(symbol) == SubSeq(symbol, FirstPattern(symbol) + 7, Len(symbol))

\* the expiry of six digits YYMMDD, year 2000 + YY, or None
ExpiryOf(digits) ==
    FromYmdOpt(2000 + DigitsValue(SubSeq(digits, 1, 2)), DigitsValue(SubSeq(digits, 3, 4)),
               DigitsValue(SubSeq(digits, 5, 6)))

\* the decoding of a trimmed symbol at the first pattern
DecodedAt(symbol, i) ==
    IF Trim(SubSeq(symbol, 1, i - 1)) = <<>> THEN Err
    ELSE IF ~ExpiryOf(SubSeq(symbol, i, i + 5)).some THEN Err
    ELSE IF ParseF64(SubSeq(symbol, i + 7, Len(symbol))).tag # "ok" THEN Err
    ELSE Ok([underlying |-> Trim(SubSeq(symbol, 1, i - 1)),
             expiration_date |-> ExpiryOf(SubSeq(symbol, i, i + 5)).v,
             option_type |-> IF symbol[i + 6] = "C" THEN "call" ELSE "put",
             strike_price |-> RDiv(ParseF64(SubSeq(symbol, i + 7, Len(symbol))).v, R(1000))])

Decoded(symbol) ==
    IF PatternPositions(symbol) = {} THEN Err ELSE DecodedAt(symbol, FirstPattern(symbol))

\* C25: parse_option_symbol finds the first index at which six ASCII digits are
\* immediately followed by C or P and returns the trimmed text before it as the
\* underlying, the digits as expiry with year 2000 + YY, the letter as call or
\* put and the rest divided by 1000 as strike; it returns an error exactly when
\* the underlying is empty, there is no such index, the expiry is not a
\* calendar date or the strike suffix is not a number
C25_DecodesAtFirstPattern ==
    outcome.tag # "notrun" => outcome = Decoded(Trim(input))

\* n written with width decimal digits
RECURSIVE ToDigits(_, _)
ToDigits(n, width) ==
    IF width = 0 THEN <<>>
    ELSE ToDigits(n \div 10, width - 1) \o <<Digits[(n % 10) + 1]>>

\* the date written YYMMDD
EncodeExpiry(date) ==
    ToDigits(date[1] % 100, 2) \o ToDigits(date[2], 2) \o ToDigits(date[3], 2)

\* strike * 1000 written as an integer zero-padded to the width, None when it is
\* not a non-negative integer
EncodeStrike(strike_price, width) ==
    IF RMul(strike_price, R(1000))[2] = 1 /\ RMul(strike_price, R(1000))[1] >= 0
    THEN Some(ToDigits(RMul(strike_price, R(1000))[1], width))
    ELSE None

\* C26: for every packed symbol that parse_option_symbol accepts, writing the
\* decoded expiry as YYMMDD and the decoded strike * 1000 as a zero-padded
\* integer (of the width of the symbol's strike) gives back the six-digit
\* expiry substring and the strike substring of the symbol
C26_RoundTrip ==
    outcome.tag = "ok" =>
        /\ EncodeExpiry(outcome.v.expiration_date) = ExpirySubstring(Trim(input))
        /\ EncodeStrike(outcome.v.strike_price, Len(StrikeSubstring(Trim(input))))
               = Some(StrikeSubstring(Trim(input)))

----------------------------------------------------------------------------
(* Properties of parse_and_aggregate *)

AllTrades(r) == r.closed_trades \o r.open_positions

Entered(t) == RSum(Quantities(t.entries))
Exited(t) == RSum(Quantities(t.exits))

\* the executions the parser returned for the text, in line order
Parsed == parsed.executions

ExecutionsOf(symbol) == SelectSeq(Parsed, LAMBDA e : e.symbol = symbol)

\* C3: two runs of parse_and_aggregate on the same text return the same closed
\* trades and the same open positions, element for element
C3_Deterministic ==
    (run1.tag = "ok" /\ run2.tag = "ok") =>
        /\ run1.closed_trades = run2.closed_trades
        /\ run1.open_positions = run2.open_positions

ClosedIff(r) ==
    r.tag = "ok" =>
        \A i \in 1..Len(AllTrades(r)) :
            LET t == AllTrades(r)[i]
            IN  (t.status = "closed") <=>
                    /\ RLe(RSub(Entered(t), Exited(t)), Epsilon)
                    /\ t.entries # <<>>
                    /\ t.exits # <<>>

\* C4: a returned trade is closed iff entered minus exited quantity is at most
\* 1e-4 and it has at least one entry and at least one exit; otherwise it is open
C4_ClosedIff == ClosedIff(run1) /\ ClosedIff(run2)

ClosedBalanced(r) ==
    r.tag = "ok" =>
        \A i \in 1..Len(r.closed_trades) :
            LET t == r.closed_trades[i]
            IN  RLe(RAbs(RSub(Entered(t), Exited(t))), Epsilon)

\* C5: every trade reported as closed has exited quantity equal to entered
\* quantity within 1e-4
C5_ClosedBalanced == ClosedBalanced(run1) /\ ClosedBalanced(run2)

\* the time of day HH:MM:SS in seconds
TimeSeconds(t) ==
    (10 * DigitVal(t[1]) + DigitVal(t[2])) * 3600
        + (10 * DigitVal(t[4]) + DigitVal(t[5])) * 60
        + 10 * DigitVal(t[7]) + DigitVal(t[8])

Earlier(a, b) ==
    \/ DateLt(a.execution_date, b.execution_date)
    \/ /\ a.execution_date = b.execution_date
       /\ TimeSeconds(a.execution_time) < TimeSeconds(b.execution_time)

\* the positions in Parsed of the opening executions of a symbol
Openings(symbol) ==
    {k \in 1..Len(Parsed) : Parsed[k].symbol = symbol /\ is_opening(Parsed[k].action)}

\* the chronologically earliest of them, the first in the file among equals
EarliestOpening(symbol) ==
    CHOOSE k \in Openings(symbol) :
        \A j \in Openings(symbol) \ {k} :
            \/ Earlier(Parsed[k], Parsed[j])
            \/ ~Earlier(Parsed[j], Parsed[k]) /\ k < j

DirectionByEarliest(r) ==
    r.tag = "ok" =>
        \A i \in 1..Len(AllTrades(r)) :
            LET t == AllTrades(r)[i]
            IN  Openings(t.symbol) # {} =>
                    t.direction = IF Parsed[EarliestOpening(t.symbol)].action = "BUYTOOPEN"
                                  THEN "long" ELSE "short"

\* C6: the direction of a trade is that of the chronologically earliest opening
\* execution of its symbol by (date, time), not by line position: buy-to-open
\* gives long, sell-to-open gives short
C6_DirectionByEarliestOpening == DirectionByEarliest(run1) /\ DirectionByEarliest(run2)

\* C6 witness: a short trade whose first opening line in the file is a buy-to-open
C6_Witness ==
    /\ run1.tag = "ok"
    /\ \E i \in 1..Len(AllTrades(run1)) :
           LET t == AllTrades(run1)[i]
           IN  /\ t.direction = "short"
               /\ Openings(t.symbol) # {}
               /\ Parsed[CHOOSE k \in Openings(t.symbol) :
                             \A j \in Openings(t.symbol) : k <= j].action = "BUYTOOPEN"

CountIn(s, id) == Cardinality({k \in 1..Len(s) : s[k].broker_execution_id = id})

OneTradePerSymbol(r) ==
    r.tag = "ok" =>
        LET ts == AllTrades(r)
        IN  /\ Len(ts) = Cardinality({Parsed[k].symbol : k \in 1..Len(Parsed)})
            /\ {ts[i].symbol : i \in 1..Len(ts)} = {Parsed[k].symbol : k \in 1..Len(Parsed)}
            /\ \A i \in 1..Len(ts) :
                   /\ Len(ts[i].entries) + Len(ts[i].exits) = Len(ExecutionsOf(ts[i].symbol))
                   /\ \A k \in 1..Len(Parsed) :
                          CountIn(ts[i].entries, Parsed[k].broker_execution_id)
                              + CountIn(ts[i].exits, Parsed[k].broker_execution_id)
                          = CountIn(ExecutionsOf(ts[i].symbol), Parsed[k].broker_execution_id)

\* C7: there is exactly one returned trade per distinct raw symbol of the parsed
\* executions, and every parsed execution is exactly once in the entries or the
\* exits of the trade of its own raw symbol, and in no other trade
C7_OneTradePerSymbol == OneTradePerSymbol(run1) /\ OneTradePerSymbol(run2)

\* C7 witness: two trades of option contracts with the same underlying
C7_Witness ==
    /\ run1.tag = "ok"
    /\ \E i, j \in 1..Len(AllTrades(run1)) :
           /\ AllTrades(run1)[i].symbol # AllTrades(run1)[j].symbol
           /\ AllTrades(run1)[i].asset_class = "option"
           /\ AllTrades(run1)[j].asset_class = "option"
           /\ AllTrades(run1)[i].underlying_symbol = AllTrades(run1)[j].underlying_symbol

WireFees(symbol) ==
    RSum([k \in 1..Len(ExecutionsOf(symbol)) |-> RAbs(ExecutionsOf(symbol)[k].fees)])

\* (avg exit - avg entry) * entered for long, the reverse for short, with the
\* quantity-weighted averages written out: avg entry * entered is the entry value
ExpectedGross(t) ==
    LET exit_times_entered == RMul(RDiv(RSum(Values(t.exits)), Exited(t)), Entered(t))
    IN  IF t.direction = "long"
        THEN RSub(exit_times_entered, RSum(Values(t.entries)))
        ELSE RSub(RSum(Values(t.entries)), exit_times_entered)

NetPnlFormula(r) ==
    r.tag = "ok" =>
        /\ \A i \in 1..Len(r.closed_trades) :
               LET t == r.closed_trades[i]
               IN  /\ t.total_fees = WireFees(t.symbol)
                   /\ t.avg_exit_price = Some(RDiv(RSum(Values(t.exits)), Exited(t)))
                   /\ RGt(Entered(t), R(0)) =>
                          t.avg_entry_price = RDiv(RSum(Values(t.entries)), Entered(t))
                   /\ t.net_pnl =
                          Some(RSub(RMul(ExpectedGross(t),
                                         IF t.asset_class = "option" THEN R(100) ELSE R(1)),
                                    WireFees(t.symbol)))
        /\ content = <<BuyAAPL, SellAAPL>> =>
               /\ Len(r.closed_trades) = 1 /\ r.open_positions = <<>>
               /\ r.closed_trades[1].direction = "long"
               /\ r.closed_trades[1].net_pnl = Some(R(498))

\* C8: for every closed trade, net P&L = (avg exit - avg entry) * entered
\* quantity * multiplier (long; avg entry - avg exit for short) minus total fees,
\* the averages quantity-weighted, the multiplier 1 for stock and 100 for option,
\* total fees the sum of the absolute wire fees; buy 100@150, sell 100@155 with
\* fees -1 and -1 gives one closed long trade with net P&L 498
C8_NetPnlFormula == NetPnlFormula(run1) /\ NetPnlFormula(run2)

\* C8 witness: the closed long stock trade of the example, with net P&L 498
C8_Witness ==
    /\ run1.tag = "ok"
    /\ content = <<BuyAAPL, SellAAPL>>
    /\ run1.closed_trades[1].net_pnl = Some(R(498))

AbsentIffOpen(r) ==
    r.tag = "ok" =>
        /\ \A i \in 1..Len(r.closed_trades) :
               /\ r.closed_trades[i].status = "closed"
               /\ r.closed_trades[i].avg_exit_price.some
               /\ r.closed_trades[i].net_pnl.some
        /\ \A i \in 1..Len(r.open_positions) :
               /\ r.open_positions[i].status = "open"
               /\ ~r.open_positions[i].avg_exit_price.some
               /\ ~r.open_positions[i].net_pnl.some

\* C9: for every returned trade, average exit price and net P&L are both absent
\* when it is open and both present when it is closed; closed trades are only in
\* the first list and open ones only in the second
C9_AbsentIffOpen == AbsentIffOpen(run1) /\ AbsentIffOpen(run2)

\* C9 witness: a run that returns a closed trade and an open position
C9_Witness ==
    /\ run1.tag = "ok"
    /\ run1.closed_trades # <<>>
    /\ run1.open_positions # <<>>

----------------------------------------------------------------------------
(* Properties of create_trade *)

HasExitLegs(inp) == inp.exits.some /\ inp.exits.v # <<>>

TotalExitQuantity(inp) == RSum(Quantities(inp.exits.v))

ComputedStatus == process_exits(input).v.status

WithinEpsilon(a, b) == RLt(RAbs(RSub(a, b)), Epsilon)

\* the stored trade has the computed status, or the input's own (closed when the
\* input has none) when none was computed
StoredStatus ==
    outcome.v.trade.status = unwrap_or(ComputedStatus, unwrap_or(input.status, "closed"))

NonPositive(option) == option.some /\ RLe(option.v, R(0))

BadLeg(leg) ==
    \/ RLe(leg.quantity, R(0))
    \/ RLe(leg.price, R(0))
    \/ leg.fees.some /\ RLt(leg.fees.v, R(0))

Invalid(inp) ==
    \/ RLe(inp.entry_price, R(0))
    \/ NonPositive(inp.quantity)
    \/ NonPositive(inp.exit_price)
    \/ NonPositive(inp.stop_loss_price)
    \/ inp.fees.some /\ RLt(inp.fees.v, R(0))
    \/ inp.exits.some /\ \E i \in 1..Len(inp.exits.v) : BadLeg(inp.exits.v[i])
    \/ HasExitLegs(inp) /\ inp.quantity.some
           /\ RGt(TotalExitQuantity(inp), inp.quantity.v)

\* C12: create_trade returns an error exactly for an input with a non-positive
\* entry price, quantity, exit price or stop price, negative fees, an exit leg
\* with non-positive quantity or price or negative fee, or exits that exceed the
\* quantity; and a call that returns an error leaves the database as it was: no
\* instrument, trade or exit-execution row is created or changed
C12_RejectsBeforeWrite ==
    [][ /\ Invalid(input') <=> outcome'.tag = "err"
        /\ outcome'.tag = "err" => db' = db ]_vars

\* C12 witness: the second exit leg was rejected and the database is still empty
C12_Witness ==
    /\ outcome.tag = "err"
    /\ outcome.ordinal = 2
    /\ db = NoDb

\* the quantity-weighted average price of the exit legs of the input
AverageExitPrice(inp) ==
    RDiv(RSum([i \in 1..Len(inp.exits.v) |->
                  RMul(inp.exits.v[i].quantity, inp.exits.v[i].price)]),
         TotalExitQuantity(inp))

\* the gross P&L of the stored trade at an exit price
GrossAt(trade, exit_price) ==
    RMul(RMul(IF trade.direction = "long" THEN RSub(exit_price, trade.entry_price)
              ELSE RSub(trade.entry_price, exit_price),
              trade.quantity.v),
         IF trade.asset_class = "option" THEN R(100) ELSE R(1))

\* C27: for every input with a non-empty, accepted list of exit legs the stored
\* exit price is the quantity-weighted average of the legs, whatever exit price
\* the input gave, and the gross P&L (derived when the trade has a quantity) is
\* computed from that average; the legs 60 at 110 and 40 at 115 on a long entry
\* of 100 at 100 give exit 112 and gross 1200
C27_WeightedExitPrice ==
    (outcome.tag = "ok" /\ HasExitLegs(input)) =>
        /\ outcome.v.trade.exit_price = Some(AverageExitPrice(input))
        /\ outcome.v.derived.gross_pnl =
               IF input.quantity.some
               THEN Some(GrossAt(outcome.v.trade, AverageExitPrice(input)))
               ELSE None
        /\ input = PartialExitsInput =>
               /\ outcome.v.trade.exit_price = Some(R(112))
               /\ outcome.v.derived.gross_pnl = Some(R(1200))

\* C27 witness: legs of 4 at 16 and 6 at 17 on an input that gives an exit
\* price of 16 store the exit price 16.6
C27_Witness ==
    /\ outcome.tag = "ok"
    /\ HasExitLegs(input) /\ Len(input.exits.v) = 2
    /\ input.exit_price = Some(R(16))
    /\ outcome.v.trade.exit_price = Some(Rat(83, 5))
    /\ outcome.v.derived.gross_pnl.some

\* C28: every trade that create_trade returns with status Open has gross P&L,
\* net P&L and result absent, a trade with exit legs that cover only part of
\* the quantity included
C28_OpenHasNoPnl ==
    (outcome.tag = "ok" /\ outcome.v.trade.status = "open") =>
        /\ outcome.v.derived.gross_pnl = None
        /\ outcome.v.derived.net_pnl = None
        /\ outcome.v.derived.result = None

----------------------------------------------------------------------------
(* Properties of execute_import *)

\* a step that is the second execute_import, after a first without error
SecondImportStep ==
    /\ outcome.tag = "imported" /\ outcome.calls = 1
    /\ outcome.v.errors = <<>>
    /\ outcome'.tag = "imported" /\ outcome'.calls = 2

\* C30: after execute_import has imported a list of trades of parse_and_aggregate
\* without error, a second execute_import of the same list with skip_duplicates
\* = true imports no trade, counts every trade as a skipped duplicate and adds
\* no trade or execution row
C30_ImportIdempotent ==
    [][SecondImportStep =>
           /\ outcome'.v.imported_count = 0
           /\ outcome'.v.skipped_duplicates = Len(input.trades)
           /\ db'.trades = db.trades
           /\ db'.trade_executions = db.trade_executions]_vars

----------------------------------------------------------------------------
(* Properties of calculate_derived_fields *)

Derived == outcome.v

\* no field is derived
AllAbsent(d) ==
    /\ d.gross_pnl = None /\ d.net_pnl = None /\ d.pnl_per_share = None
    /\ d.risk_per_share = None /\ d.r_multiple = None /\ d.result = None

\* C13: for every trade with no exit price all six derived fields are absent,
\* whatever the stop-loss price
C13_AllAbsentWithoutExit ==
    (outcome.tag = "ok" /\ ~input.exit_price.some) => AllAbsent(Derived)

\* C13, amended: for every trade with no exit price the gross P&L, net P&L, P&L
\* per share, R-multiple and result are absent; the risk per share is
\* |entry - stop| when a stop-loss price other than the entry price is set and
\* absent otherwise
C13_PnlAbsentWithoutExit ==
    (outcome.tag = "ok" /\ ~input.exit_price.some) =>
        /\ Derived.gross_pnl = None /\ Derived.net_pnl = None
        /\ Derived.pnl_per_share = None
        /\ Derived.r_multiple = None /\ Derived.result = None
        /\ Derived.risk_per_share =
               IF input.stop_loss_price.some /\ input.stop_loss_price.v # input.entry_price
               THEN Some(RAbs(RSub(input.entry_price, input.stop_loss_price.v)))
               ELSE None

\* C13 witness: a trade with a quantity and a stop-loss price of 14 but no exit
\* price; only the risk per share, 1, is derived
C13_Witness ==
    /\ outcome.tag = "ok"
    /\ ~input.exit_price.some /\ input.quantity.some
    /\ input.stop_loss_price = Some(R(14))
    /\ Derived.risk_per_share = Some(R(1))
    /\ Derived.r_multiple = None

\* C14: for every trade with an exit price the P&L per share is exit - entry
\* (long) or entry - exit (short), whether or not the quantity is present; a
\* missing quantity makes only the gross P&L, the net P&L and the result absent
C14_PnlPerShareWithoutQuantity ==
    (outcome.tag = "ok" /\ input.exit_price.some) =>
        /\ Derived.pnl_per_share =
               Some(IF input.direction = "long"
                    THEN RSub(input.exit_price.v, input.entry_price)
                    ELSE RSub(input.entry_price, input.exit_price.v))
        /\ ~input.quantity.some =>
               /\ Derived.gross_pnl = None /\ Derived.net_pnl = None
               /\ Derived.result = None

\* C15: with an exit price and a quantity, gross = (exit - entry) * quantity *
\* multiplier for a long trade and (entry - exit) * quantity * multiplier for a
\* short one, the multiplier 1 for stock and 100 for option; net = gross - fees;
\* the result is win, loss or breakeven as net is positive, negative or zero;
\* and in every case the result is present exactly when the net P&L is
C15_GrossNetResult ==
    outcome.tag = "ok" =>
        /\ Derived.result.some <=> Derived.net_pnl.some
        /\ (input.exit_price.some /\ input.quantity.some) =>
               LET diff == IF input.direction = "long"
                           THEN RSub(input.exit_price.v, input.entry_price)
                           ELSE RSub(input.entry_price, input.exit_price.v)
                   mult == IF input.asset_class = "option" THEN R(100) ELSE R(1)
                   gross == RMul(RMul(diff, input.quantity.v), mult)
                   net == RSub(gross, input.fees)
               IN  /\ Derived.gross_pnl = Some(gross)
                   /\ Derived.net_pnl = Some(net)
                   /\ Derived.result =
                          Some(CASE RGt(net, R(0)) -> "win"
                                 [] RLt(net, R(0)) -> "loss"
                                 [] OTHER -> "breakeven")

\* C15 witness: the long stock trade of 10 bought at 15 and sold at 16 with fees
\* of 10: gross 10, net 0, breakeven
C15_Witness ==
    /\ outcome.tag = "ok"
    /\ input.direction = "long" /\ input.asset_class = "stock"
    /\ input.quantity = Some(R(10)) /\ input.exit_price = Some(R(16))
    /\ input.fees = R(10)
    /\ Derived.gross_pnl = Some(R(10))
    /\ Derived.net_pnl = Some(R(0))
    /\ Derived.result = Some("breakeven")

----------------------------------------------------------------------------
(* Properties of calculate_period_metrics and calculate_equity_curve *)

Metrics == outcome.v

HasResult(trade) == trade.result.some

\* the trades of the input in ascending date order, same-date trades in input
\* order
ByDay(trades) ==
    SelectSeq(trades, LAMBDA t : t.trade_date = Day1)
        \o SelectSeq(trades, LAMBDA t : t.trade_date = Day2)
        \o SelectSeq(trades, LAMBDA t : t.trade_date = Day3)

\* whether the k trades from position i on all have the result
IsRun(trades, result, i, k) ==
    /\ i + k - 1 <= Len(trades)
    /\ \A j \in i..(i + k - 1) : trades[j].result = Some(result)

\* the length of the longest run of consecutive trades with the result
LongestRun(trades, result) ==
    CHOOSE k \in 0..Len(trades) :
        /\ k = 0 \/ \E i \in 1..Len(trades) : IsRun(trades, result, i, k)
        /\ \A m \in (k + 1)..Len(trades) :
               ~\E i \in 1..Len(trades) : IsRun(trades, result, i, m)

\* C16: max_win_streak is the length of the longest run of consecutive wins, and
\* max_loss_streak that of consecutive losses, in the trades that carry a result
\* sorted ascending by trade date with same-date trades in input order; a
\* breakeven belongs to no run and ends both
C16_Streaks ==
    outcome.tag = "metrics" =>
        /\ Metrics.max_win_streak = LongestRun(SelectSeq(ByDay(input), HasResult), "win")
        /\ Metrics.max_loss_streak = LongestRun(SelectSeq(ByDay(input), HasResult), "loss")

\* C16 witness: two wins of the second day given around a breakeven of the
\* first day are a run of two
C16_Witness ==
    /\ outcome.tag = "metrics"
    /\ input = <<MetricTrade(Day2, Some(R(1000))), MetricTrade(Day1, Some(R(0))),
                 MetricTrade(Day2, Some(R(1000)))>>
    /\ Metrics.max_win_streak = 2
    /\ Metrics.max_loss_streak = 0

\* the trades of the input with the result, and the sum of their net P&L
WithResult(trades, result) == SelectSeq(trades, LAMBDA t : t.result = Some(result))
SumOf(trades, result) == RSum(NetPnls(WithResult(trades, result)))
Wins == Len(WithResult(input, "win"))
Losses == Len(WithResult(input, "loss"))

\* C17: profit_factor is (sum of the winning net P&L) / |sum of the losing net
\* P&L| when there is a loss, and the divisor is then not zero; +infinity when
\* there is a win and no loss; absent when there is neither
C17_ProfitFactor ==
    outcome.tag = "metrics" =>
        IF Losses > 0
        THEN /\ SumOf(input, "loss") # R(0)
             /\ Metrics.profit_factor =
                    Some(RDiv(SumOf(input, "win"), RAbs(SumOf(input, "loss"))))
        ELSE IF Wins > 0 THEN Metrics.profit_factor = Some(Infinity)
        ELSE Metrics.profit_factor = None

\* C17 witness: wins only, the profit factor is +infinity
C17_Witness ==
    /\ outcome.tag = "metrics"
    /\ Wins = 2 /\ Losses = 0
    /\ Metrics.profit_factor = Some(Infinity)

\* C18: win_rate = wins / (wins + losses), absent without a win or a loss;
\* expectancy = win_rate * avg_win + (1 - win_rate) * avg_loss exactly when
\* there is at least one win and at least one loss, absent otherwise
C18_Expectancy ==
    outcome.tag = "metrics" =>
        /\ Metrics.win_rate =
               IF Wins + Losses > 0 THEN Some(Rat(Wins, Wins + Losses)) ELSE None
        /\ Metrics.expectancy.some <=> (Wins > 0 /\ Losses > 0)
        /\ Metrics.expectancy.some <=>
               (Metrics.win_rate.some /\ Metrics.avg_win.some /\ Metrics.avg_loss.some)
        /\ (Wins > 0 /\ Losses > 0) =>
               Metrics.expectancy =
                   Some(RAdd(RMul(Rat(Wins, Wins + Losses),
                                  RDiv(SumOf(input, "win"), R(Wins))),
                             RMul(RSub(R(1), Rat(Wins, Wins + Losses)),
                                  RDiv(SumOf(input, "loss"), R(Losses)))))

\* C18 witness: two wins of 1000 and a loss of 800: win rate 2/3, expectancy
\* 2/3 * 1000 - 1/3 * 800 = 400
C18_Witness ==
    /\ outcome.tag = "metrics"
    /\ Wins = 2 /\ Losses = 1
    /\ Metrics.win_rate = Some(Rat(2, 3))
    /\ Metrics.expectancy = Some(R(400))

\* the three trades of the drawdown example
DrawdownExample ==
    <<MetricTrade(Day1, Some(R(1000))), MetricTrade(Day2, Some(R(-800))),
      MetricTrade(Day3, Some(R(-500)))>>

\* C19: max_drawdown is the largest drawdown of the points of the equity curve
\* of the same trades, 0 for an empty set; the trades +1000, -800, -500 on
\* successive days give 1300
C19_MaxDrawdown ==
    outcome.tag = "metrics" =>
        LET curve == calculate_equity_curve_owned(input)
        IN  /\ \A i \in 1..Len(curve) : RLe(curve[i].drawdown, Metrics.max_drawdown)
            /\ \/ \E i \in 1..Len(curve) : curve[i].drawdown = Metrics.max_drawdown
               \/ curve = <<>> /\ Metrics.max_drawdown = R(0)
            /\ input = <<>> => Metrics.max_drawdown = R(0)
            /\ input = DrawdownExample => Metrics.max_drawdown = R(1300)

\* C19 witness: a loss between two wins: the largest drawdown, 800, is not that
\* of the last point
C19_Witness ==
    /\ outcome.tag = "metrics"
    /\ input = <<MetricTrade(Day1, Some(R(1000))), MetricTrade(Day2, Some(R(-800))),
                 MetricTrade(Day3, Some(R(1000)))>>
    /\ Metrics.max_drawdown = R(800)

Curve == outcome.v

\* the largest cumulative value of the points 1..i of a curve
RECURSIVE MaxCumulative(_, _)
MaxCumulative(curve, i) ==
    IF i = 1 THEN curve[1].cumulative_pnl
    ELSE RMax(MaxCumulative(curve, i - 1), curve[i].cumulative_pnl)

\* C20: for every point i of an equity curve the drawdown is the largest
\* cumulative value of the points up to i minus the cumulative value of i, also
\* when the first cumulative value is negative
C20_DrawdownFromRunningMax ==
    outcome.tag = "curve" =>
        \A i \in 1..Len(Curve) :
            Curve[i].drawdown = RSub(MaxCumulative(Curve, i), Curve[i].cumulative_pnl)

\* C20, amended: the running peak starts at 0: for every point i the drawdown is
\* the larger of 0 and the largest cumulative value of the points up to i,
\* minus the cumulative value of i; a curve whose first cumulative value is
\* negative starts with that loss as its drawdown
C20_DrawdownFromPeakAboveZero ==
    outcome.tag = "curve" =>
        /\ \A i \in 1..Len(Curve) :
               Curve[i].drawdown =
                   RSub(RMax(R(0), MaxCumulative(Curve, i)), Curve[i].cumulative_pnl)
        /\ (Curve # <<>> /\ RLt(Curve[1].cumulative_pnl, R(0))) =>
               Curve[1].drawdown = RNeg(Curve[1].cumulative_pnl)

\* C20 witness: a curve that starts at -800 and rises to 200: drawdowns 800, 0
C20_Witness ==
    /\ outcome.tag = "curve"
    /\ Len(Curve) = 2
    /\ Curve[1].cumulative_pnl = R(-800) /\ Curve[1].drawdown = R(800)
    /\ Curve[2].cumulative_pnl = R(200) /\ Curve[2].drawdown = R(0)

\* the dates of the trades that carry a net P&L
DatesWithNetPnl(trades) ==
    {trades[i].trade_date : i \in {j \in 1..Len(trades) : trades[j].net_pnl.some}}

\* the sum of the net P&L of the trades dated on or before the date
NetPnlUpTo(trades, date) ==
    RSum(NetPnls(SelectSeq(trades,
        LAMBDA t : t.net_pnl.some /\ ~DateLt(date, t.trade_date))))

\* C21: for any list of trades in any order the equity curve has exactly one
\* point per distinct date that has a trade with a net P&L, in strictly
\* increasing date order; the cumulative value of a point is the sum of the net
\* P&L of all trades dated on or before it, and every drawdown is >= 0
C21_OnePointPerDate ==
    outcome.tag = "curve" =>
        /\ Len(Curve) = Cardinality(DatesWithNetPnl(input))
        /\ {Curve[i].date : i \in 1..Len(Curve)} = DatesWithNetPnl(input)
        /\ \A i \in 1..(Len(Curve) - 1) : DateLt(Curve[i].date, Curve[i + 1].date)
        /\ \A i \in 1..Len(Curve) :
               /\ Curve[i].cumulative_pnl = NetPnlUpTo(input, Curve[i].date)
               /\ RGe(Curve[i].drawdown, R(0))

\* C21 witness: a loss of the third day given before a win of the first day and
\* a trade without net P&L of the second day: two points, 1000 and 200
C21_Witness ==
    /\ outcome.tag = "curve"
    /\ input = <<MetricTrade(Day3, Some(R(-800))), MetricTrade(Day2, None),
                 MetricTrade(Day1, Some(R(1000)))>>
    /\ Len(Curve) = 2
    /\ Curve[1].date = Day1 /\ Curve[1].cumulative_pnl = R(1000)
    /\ Curve[2].date = Day3 /\ Curve[2].cumulative_pnl = R(200)

Daily == outcome.v

\* the trades of a date that carry a net P&L
TradesOfDay(trades, date) ==
    SelectSeq(trades, LAMBDA t : t.net_pnl.some /\ t.trade_date = date)

\* C22: calculate_daily_metrics returns one row per distinct date among the
\* trades that have a net P&L, strictly ascending by date; realized_net_pnl is
\* the sum of the day's net P&L, trade_count the number of the day's trades,
\* win_count and loss_count the numbers of the day's wins and losses; a
\* breakeven adds to trade_count only, so win_count + loss_count <= trade_count
C22_DailyRows ==
    outcome.tag = "daily" =>
        /\ Len(Daily) = Cardinality(DatesWithNetPnl(input))
        /\ {Daily[i].date : i \in 1..Len(Daily)} = DatesWithNetPnl(input)
        /\ \A i \in 1..(Len(Daily) - 1) : DateLt(Daily[i].date, Daily[i + 1].date)
        /\ \A i \in 1..Len(Daily) :
               LET day == TradesOfDay(input, Daily[i].date)
               IN  /\ Daily[i].realized_net_pnl = RSum(NetPnls(day))
                   /\ Daily[i].trade_count = Len(day)
                   /\ Daily[i].win_count = Len(WithResult(day, "win"))
                   /\ Daily[i].loss_count = Len(WithResult(day, "loss"))
                   /\ Daily[i].win_count + Daily[i].loss_count <= Daily[i].trade_count
                   /\ Daily[i].trade_count =
                          Daily[i].win_count + Daily[i].loss_count
                              + Len(WithResult(day, "breakeven"))

\* C22 witness: a win, a breakeven and a loss of one day make one row with
\* three trades, one win and one loss
C22_Witness ==
    /\ outcome.tag = "daily"
    /\ Len(Daily) = 1
    /\ Daily[1].trade_count = 3
    /\ Daily[1].win_count = 1 /\ Daily[1].loss_count = 1
    /\ Daily[1].realized_net_pnl = R(200)

\* the sums of a column of the daily rows
RECURSIVE SumRealized(_)
SumRealized(rows) ==
    IF rows = <<>> THEN R(0)
    ELSE RAdd(rows[1].realized_net_pnl, SumRealized(Tail(rows)))

RECURSIVE SumTradeCount(_)
SumTradeCount(rows) ==
    IF rows = <<>> THEN 0 ELSE rows[1].trade_count + SumTradeCount(Tail(rows))

\* the cumulative value of the last point of a curve, 0 for the empty curve
LastCumulative(curve) ==
    IF curve = <<>> THEN R(0) ELSE curve[Len(curve)].cumulative_pnl

\* what the three aggregations return for one list of trades
Agree(metrics, daily, curve) ==
    /\ SumRealized(daily) = metrics.total_net_pnl
    /\ LastCumulative(curve) = metrics.total_net_pnl
    /\ SumTradeCount(daily) = metrics.trade_count
    /\ metrics.trade_count =
           metrics.win_count + metrics.loss_count + metrics.breakeven_count

\* C29: for a list of trades whose result is the classification of their net
\* P&L the three aggregations agree: the sum of realized_net_pnl over the daily
\* rows, total_net_pnl and the cumulative value of the last equity point are
\* equal, the sum of the daily trade_count is trade_count, and trade_count =
\* win_count + loss_count + breakeven_count
C29_AggregationsAgree ==
    outcome.tag = "metrics" =>
        Agree(Metrics, calculate_daily_metrics(input), calculate_equity_curve_owned(input))

\* C29 witness: two losses and a breakeven on two of the three days
C29_Witness ==
    /\ outcome.tag = "metrics"
    /\ Len(input) = 3
    /\ DatesWithNetPnl(input) = {Day1, Day3}
    /\ Metrics.trade_count = 3
    /\ Metrics.breakeven_count = 1
    /\ Metrics.total_net_pnl = R(-1300)

====
